---------------------------- MODULE Spec2Model ----------------------------
(* JamesTradeBot: the trading iteration engine (src/trading_core.py) over   *)
(* the JSON store (src/db_json.py) and the exchange client (src/client.py). *)
(*                                                                          *)
(* Numbers: prices and balances are whole USD; a quantity is an integer     *)
(* count of 10^-6 units (QTY_PRECISION's default resolution), so            *)
(* qty * price >= MIN_NOTIONAL reads  qty * price >= MIN_NOTIONAL * QUnit.  *)
EXTENDS Integers, Sequences, FiniteSets, TLC

\* ------------------------------------------------------------------ bounds
\* usable candle frames the exchange serves in a run (each one an evaluation)
MaxFrames == 2
\* longest RSI series of the signal specification
MaxRsiLen == 2
\* db_json mutator calls the front end makes in a run
MaxFrontOps == 1
\* trading_core.py processes main.py starts in a run
MaxProcs == 3
\* entries of a user's stored symbol list
MaxSyms == 2
\* append_trade calls of the ledger-file specification
MaxAppends == 3
\* characters of an API key or secret of the credential specification
MaxKeyLen == 2
\* evaluations of one key in one run of the key-ledger specification
MaxEvals == 4
\* calls of db_json mutators in one run of the mutator specification
MaxCalls == 3
\* writes to the users file in one run of the file specification
MaxFileOps == 3
\* stops of the engine process in one run
MaxCrashes == 1
\* polls of check_invoices_worker
MaxPolls == 2
\* updates (messages and button presses) of one chat with the bot
MaxUpdates == 3
\* closes of a candle series of the RSI specification
MaxCloses == 4
\* significand bits of the binary floats of the float specification (Python's
\* float has 53; the rounding rules are the same)
FloatBits == 5

\* ------------------------------------------------------- values and config
\* a missing float (pandas NaN); every comparison with it is false
NaN == -999
\* get_balance_usdt returned None (client.py:91) or raised (trading_core.py:329)
BalNone == -1

RECURSIVE Pow10(_)
Pow10(n) == IF n <= 0 THEN 1 ELSE 10 * Pow10(n - 1)

\* the fixed-point unit of a quantity: one 10^-6
QUnit == Pow10(6)

\* trading_core.py:39  SYMBOLS_ENV (normalized tickers)
BTC == "BTCUSDT"
ETH == "ETHUSDT"
SYMBOLS_ENV == <<BTC, ETH>>
Symbols == {BTC, ETH}

\* trading_core.py:53-70  DEFAULTS (the keys the decision reads)
DEFAULTS ==
  [ RSI_OVERSOLD |-> 35, RSI_OVERBOUGHT |-> 65, RSI_CONFIRM |-> 1,
    ORDER_PERCENT |-> 5, ORDER_SIZE_USD |-> 0, MIN_NOTIONAL |-> 5,
    QTY_PRECISION |-> 6, MACD_THRESHOLD |-> 0 ]

\* db_json.py:66-72  the settings create_default_user stores (keys the engine reads)
DefaultUserSettings ==
  [ RSI_OVERSOLD |-> 40, RSI_OVERBOUGHT |-> 60,
    ORDER_PERCENT |-> 10, ORDER_SIZE_USD |-> 0 ]

\* trading_core.py:272  merged_settings = {**DEFAULTS, **settings}
MergedSettings(settings) ==
  [ k \in (DOMAIN DEFAULTS) \cup (DOMAIN settings) |->
      IF k \in DOMAIN settings THEN settings[k] ELSE DEFAULTS[k] ]

\* ------------------------------------------------------------- positions
\* positions.get(symbol) is None: key absent or stored as None (line 352)
NoPos == [side |-> "None", entry_price |-> 0, qty |-> 0]
\* trading_core.py:374  the stored position
LongPos(price, qty) == [side |-> "LONG", entry_price |-> price, qty |-> qty]
IsNone(pos) == pos.side = "None"

\* ------------------------------------------------------------ pure helpers
Min(a, b) == IF a <= b THEN a ELSE b
Max(a, b) == IF a >= b THEN a ELSE b

\* trading_core.py:110-117  floor_qty, on the exact quotient num/den:
\* 0 for qty <= 0, else floor(qty * 10^prec) / 10^prec (in QUnit units)
floor_qty(num, den, prec) ==
  IF num <= 0 THEN 0
  ELSE ((num * Pow10(prec)) \div den) * Pow10(6 - prec)

\* trading_core.py:324-337  order_usd in cents; a None or failed balance is 0.0
\* (faulty variant: the fixed amount is not capped by the balance)
OrderCentsNoCap(ms, bal) ==
  LET usdt_balance == IF bal = BalNone THEN 0 ELSE bal
      cfg == ms.ORDER_SIZE_USD
  IN IF cfg > 0 THEN cfg * 100
     ELSE IF usdt_balance > 0 THEN usdt_balance * ms.ORDER_PERCENT ELSE 0
OrderCents(ms, bal) ==
  LET usdt_balance == IF bal = BalNone THEN 0 ELSE bal
      cfg == ms.ORDER_SIZE_USD
  IN IF cfg > 0
     THEN (IF usdt_balance > 0 THEN Min(cfg, usdt_balance) ELSE cfg) * 100
     ELSE IF usdt_balance > 0 THEN usdt_balance * ms.ORDER_PERCENT ELSE 0

\* trading_core.py:339-341  raw_qty = order_usd / price if price > 0 else 0.0
SizedQty(ms, bal, price) ==
  IF price > 0 /\ price # NaN
  THEN floor_qty(OrderCents(ms, bal), 100 * price, ms.QTY_PRECISION)
  ELSE 0

\* pandas rsi_s.iloc[-n:] (line 318): the last n entries; -0 is the whole series
IlocLast(s, n) ==
  LET from == IF n > 0 THEN Max(Len(s) - n, 0) + 1 ELSE 1 - n
  IN SubSeq(s, from, Len(s))

NotNullAll(s) == \A i \in 1..Len(s) : s[i] # NaN

\* trading_core.py:315-320  rsi_confirm_buy
\* (faulty variant: <= in place of <)
RsiConfirmBuyLoose(rsi_s, n, oversold) ==
  /\ n <= Len(rsi_s)
  /\ NotNullAll(IlocLast(rsi_s, n))
  /\ \A i \in 1..Len(IlocLast(rsi_s, n)) : IlocLast(rsi_s, n)[i] <= oversold
RsiConfirmBuy(rsi_s, n, oversold) ==
  /\ n <= Len(rsi_s)
  /\ NotNullAll(IlocLast(rsi_s, n))
  /\ \A i \in 1..Len(IlocLast(rsi_s, n)) : IlocLast(rsi_s, n)[i] < oversold

\* trading_core.py:316-321  rsi_confirm_sell
\* (faulty variant: only the last reading compared)
RsiConfirmSellLast(rsi_s, n, overbought) ==
  /\ n <= Len(rsi_s)
  /\ NotNullAll(IlocLast(rsi_s, n))
  /\ rsi_s[Len(rsi_s)] > overbought
RsiConfirmSell(rsi_s, n, overbought) ==
  /\ n <= Len(rsi_s)
  /\ NotNullAll(IlocLast(rsi_s, n))
  /\ \A i \in 1..Len(IlocLast(rsi_s, n)) : IlocLast(rsi_s, n)[i] > overbought

\* trading_core.py:305  trend_up = ema_fast > ema_slow (False when either is NaN)
TrendUp(ema_fast, ema_slow) ==
  ema_fast # NaN /\ ema_slow # NaN /\ ema_fast > ema_slow

\* trading_core.py:343  buy_ok
BuyOk(rsi_confirm_buy, trend_up, macd_hist, thr) ==
  rsi_confirm_buy /\ trend_up /\ (macd_hist # NaN /\ macd_hist > thr)

\* trading_core.py:344  sell_ok
\* (faulty variant: and in place of or)
SellOkAll(rsi_confirm_sell, trend_up, macd_hist, thr) ==
  rsi_confirm_sell /\ (~trend_up) /\ (macd_hist # NaN /\ macd_hist < -thr)
SellOk(rsi_confirm_sell, trend_up, macd_hist, thr) ==
  rsi_confirm_sell \/ (~trend_up) \/ (macd_hist # NaN /\ macd_hist < -thr)

\* trading_core.py:355  the BUY branch's condition
\* (faulty variant: the notional test dropped)
BuyBranchNoNotional(pos, buy_ok, qty, price, min_notional) ==
  IsNone(pos) /\ buy_ok /\ qty > 0
\* (faulty variant: the pos is None test dropped)
BuyBranchNoPosCheck(pos, buy_ok, qty, price, min_notional) ==
  buy_ok /\ qty > 0 /\ qty * price >= min_notional * QUnit
BuyBranch(pos, buy_ok, qty, price, min_notional) ==
  IsNone(pos) /\ buy_ok /\ qty > 0 /\ qty * price >= min_notional * QUnit

\* trading_core.py:378  the SELL branch's condition
SellBranch(pos, sell_ok) == (~IsNone(pos)) /\ sell_ok

\* trading_core.py:381  a SELL is recorded only at or above the minimum notional
\* (faulty variant: the notional test dropped)
SellLoudAlways(qty_to_sell, price, min_notional) == qty_to_sell > 0
\* (faulty variant: the notional comparison inverted)
SellLoudInverted(qty_to_sell, price, min_notional) ==
  qty_to_sell * price <= min_notional * QUnit /\ qty_to_sell > 0
SellLoud(qty_to_sell, price, min_notional) ==
  qty_to_sell * price >= min_notional * QUnit /\ qty_to_sell > 0

\* trading_core.py:380  qty_to_sell = pos.get("qty", qty): the stored quantity
\* (faulty variant: this cycle's quantity sold)
QtyToSellSized(pos, qty) == qty
QtyToSell(pos, qty) == pos.qty

\* trading_core.py:356-364, 382-390  the trade dict (ts left out)
Trade(uid, symbol, side, price, qty, order_resp) ==
  [ user_id |-> uid, symbol |-> symbol, side |-> side, price |-> price,
    qty |-> qty, pnl |-> 0, order_resp |-> order_resp ]

\* trading_core.py:365, 391  an order is attempted only outside dry-run mode
\* and with a client object
\* (faulty variant: the DRY_RUN test left out)
PlacingAlways(dry_run, client_ok) == client_ok
Placing(dry_run, client_ok) == (~dry_run) /\ client_ok

\* trading_core.py:365-370, 391-396  the trade's order_resp after an attempted
\* order: what place_order returned, or the error payload built from the
\* exception it raised
\* (faulty variant: the except branch only logs)
OrderRespLogOnly(outcome) == IF outcome = "raises" THEN "absent" ELSE outcome
OrderResp(outcome) == IF outcome = "raises" THEN "error" ELSE outcome

\* trading_core.py:352-407  the position step of one (user, symbol):
\* the new position, the trades appended and the orders placed
\* (faulty variant: the SELL test is an if of its own after the BUY branch)
DecideTwoIfs(uid, symbol, pos, buy_ok, sell_ok, qty, price, min_notional, placing, resp) ==
  LET first ==
        IF BuyBranch(pos, buy_ok, qty, price, min_notional)
        THEN [ pos    |-> LongPos(price, qty),
               trades |-> << Trade(uid, symbol, "BUY", price, qty, "absent") >>,
               orders |-> << >> ]
        ELSE [ pos |-> pos, trades |-> << >>, orders |-> << >> ]
  IN IF SellBranch(first.pos, sell_ok)
     THEN IF SellLoud(QtyToSell(first.pos, qty), price, min_notional)
          THEN [ pos    |-> NoPos,
                 trades |-> Append(first.trades,
                                   Trade(uid, symbol, "SELL", price,
                                         QtyToSell(first.pos, qty), "absent")),
                 orders |-> << >> ]
          ELSE [ pos |-> NoPos, trades |-> first.trades, orders |-> << >> ]
     ELSE first
Decide(uid, symbol, pos, buy_ok, sell_ok, qty, price, min_notional, placing, resp) ==
  IF BuyBranch(pos, buy_ok, qty, price, min_notional)
  THEN [ pos    |-> LongPos(price, qty),
         trades |-> << Trade(uid, symbol, "BUY", price, qty,
                             IF placing THEN OrderResp(resp) ELSE "absent") >>,
         orders |-> IF placing
                    THEN << [side |-> "Buy", qty |-> qty, symbol |-> symbol, uid |-> uid] >>
                    ELSE << >> ]
  ELSE IF SellBranch(pos, sell_ok)
  THEN IF SellLoud(QtyToSell(pos, qty), price, min_notional)
       THEN [ pos    |-> NoPos,
              trades |-> << Trade(uid, symbol, "SELL", price, QtyToSell(pos, qty),
                                  IF placing THEN OrderResp(resp) ELSE "absent") >>,
              orders |-> IF placing
                         THEN << [side |-> "Sell", qty |-> QtyToSell(pos, qty),
                                  symbol |-> symbol, uid |-> uid] >>
                         ELSE << >> ]
       ELSE [ pos |-> NoPos, trades |-> << >>, orders |-> << >> ]
  ELSE [ pos |-> pos, trades |-> << >>, orders |-> << >> ]

\* trading_core.py:296-344  the locals of one evaluation, from the candle-derived
\* inputs inp = [rsi, ema_fast, ema_slow, macd, price, bal] and merged settings ms
\* (faulty variant: the position test of line 355 folded into buy_ok)
LocalsPositionAware(ms, inp) ==
  LET rsi_confirm_buy  == RsiConfirmBuy(inp.rsi, ms.RSI_CONFIRM, ms.RSI_OVERSOLD)
      rsi_confirm_sell == RsiConfirmSell(inp.rsi, ms.RSI_CONFIRM, ms.RSI_OVERBOUGHT)
      trend_up         == TrendUp(inp.ema_fast, inp.ema_slow)
      flat             == ("pos" \notin DOMAIN inp) \/ IsNone(inp.pos)
  IN [ rsi_confirm_buy  |-> rsi_confirm_buy,
       rsi_confirm_sell |-> rsi_confirm_sell,
       trend_up |-> trend_up,
       price    |-> inp.price,
       qty      |-> SizedQty(ms, inp.bal, inp.price),
       buy_ok   |-> flat /\ BuyOk(rsi_confirm_buy, trend_up, inp.macd, ms.MACD_THRESHOLD),
       sell_ok  |-> SellOk(rsi_confirm_sell, trend_up, inp.macd, ms.MACD_THRESHOLD) ]
Locals(ms, inp) ==
  LET rsi_confirm_buy  == RsiConfirmBuy(inp.rsi, ms.RSI_CONFIRM, ms.RSI_OVERSOLD)
      rsi_confirm_sell == RsiConfirmSell(inp.rsi, ms.RSI_CONFIRM, ms.RSI_OVERBOUGHT)
      trend_up         == TrendUp(inp.ema_fast, inp.ema_slow)
  IN [ rsi_confirm_buy  |-> rsi_confirm_buy,
       rsi_confirm_sell |-> rsi_confirm_sell,
       trend_up |-> trend_up,
       price    |-> inp.price,
       qty      |-> SizedQty(ms, inp.bal, inp.price),
       buy_ok   |-> BuyOk(rsi_confirm_buy, trend_up, inp.macd, ms.MACD_THRESHOLD),
       sell_ok  |-> SellOk(rsi_confirm_sell, trend_up, inp.macd, ms.MACD_THRESHOLD) ]

\* ------------------------------------------------------------ user records
\* trading_core.py:121-126  normalize_symbol on the raw strings of the model:
\* upper-cased, everything outside A-Z0-9 removed
normalize_symbol(sym) ==
  CASE sym = "eth/usdt" -> ETH
    [] sym = "ETH-USDT" -> ETH
    [] sym = "BTC/USDT" -> BTC
    [] sym = "/"        -> ""
    [] OTHER            -> sym

\* one record of users.json.  wellformed = FALSE: "settings" is not a JSON
\* object (a hand-edited file), so settings.get raises at line 248
UserRec(sub, key, secret, settings, wellformed) ==
  [ sub_until |-> sub, api_key |-> key, api_secret |-> secret,
    settings |-> settings, wellformed |-> wellformed,
    _positions |-> [s \in Symbols |-> NoPos] ]

\* the records the store starts with: db_json.create_default_user's record after
\* keys and subscription were set, with or without a stored symbol list
UserKinds ==
  { UserRec("future", "b64", "b64",
            [ RSI_OVERSOLD |-> 40, RSI_OVERBOUGHT |-> 60, ORDER_PERCENT |-> 10,
              ORDER_SIZE_USD |-> 0, symbols |-> <<"BTC/USDT", "/", "ETHUSDT">> ], TRUE),
    UserRec("past", "b64", "b64", DefaultUserSettings, TRUE),
    UserRec("future", "", "", DefaultUserSettings, TRUE),
    UserRec("future", "b64", "b64", DefaultUserSettings, FALSE) }

\* trading_core.py:238  base64 decode of the stored key ("" when it fails)
DecodeKey(enc) == IF enc \in {"b64", "b64n"} THEN "plain" ELSE ""

\* trading_core.py:220-245  the checks a user passes before any work is done
\* (faulty variant: the comparison with the current time left out)
EligibleNoExpiry(u) ==
  /\ u.sub_until # ""
  /\ u.api_key # "" /\ u.api_secret # ""
  /\ DecodeKey(u.api_key) # "" /\ DecodeKey(u.api_secret) # ""
Eligible(u) ==
  /\ u.sub_until \in {"future", "renewed"}
  /\ u.api_key # "" /\ u.api_secret # ""
  /\ DecodeKey(u.api_key) # "" /\ DecodeKey(u.api_secret) # ""

\* trading_core.py:258-265  the normalized symbol list of a user
Normalized(settings) ==
  LET user_symbols == IF "symbols" \in DOMAIN settings /\ settings.symbols # << >>
                      THEN settings.symbols ELSE SYMBOLS_ENV
      norm == [i \in 1..Len(user_symbols) |-> normalize_symbol(user_symbols[i])]
      kept == SelectSeq(norm, LAMBDA x : x # "")
  IN IF kept = << >> THEN SYMBOLS_ENV ELSE kept

\* trading_core.py:178-186  uniq: first occurrences, order kept
RECURSIVE Uniq(_)
Uniq(seq) ==
  IF seq = << >> THEN << >>
  ELSE LET init == Uniq(SubSeq(seq, 1, Len(seq) - 1))
           x == seq[Len(seq)]
       IN IF \E i \in 1..Len(init) : init[i] = x THEN init ELSE Append(init, x)

\* trading_core.py:268-269  syms_to_use, ok = the symbols the exchange confirms
\* (faulty variant: no fallback to the normalized list)
SymsToUseValidOnly(normalized, ok) ==
  Uniq(SelectSeq(normalized, LAMBDA x : x \in ok))
SymsToUse(normalized, ok) ==
  LET valid_syms == Uniq(SelectSeq(normalized, LAMBDA x : x \in ok))
  IN IF valid_syms # << >> THEN valid_syms ELSE normalized

\* ------------------------------------------------------------------- state
VARIABLES
  store,      \* users.json: uid -> record
  ledger,     \* trades.json: the sequence of trade records
  orders,     \* the place_order calls the exchange received
  dryRun,     \* DRY_RUN (trading_core.py:38)
  clientOk,   \* client_module was imported (trading_core.py:77-81)
  pc,         \* where run_trading_iteration stands: sleep, user, symbol, eval, persist
  users,      \* the dict load_users returned at line 209, mutated in memory
  ui,         \* the user the for loop of line 214 is at
  syms,       \* syms_to_use of that user
  si,         \* the symbol the for loop of line 273 is at
  ev,         \* the locals of the last per-symbol unit of work
  result,     \* how the last iteration ended: none, returned, raised
  faultUser,  \* the first user of this iteration with a faulted unit of work (0: none)
  persisted,  \* the users whose record this iteration wrote
  nOpen,      \* per key: evaluations that took the position from None to LONG
  nClose,     \* per key: evaluations that closed a position at or above MIN_NOTIONAL
  frames,     \* usable candle frames the exchange has served
  sig,        \* the signal evaluation of SpecSignal: inputs and verdicts
  fe,         \* the front end (tg_app.py): the db_json mutator in flight, those done
  sup,        \* main.py's supervisor thread and the trading_core processes
  res         \* the symbol resolution of SpecSymbols: stored list, validation, result

vars == << store, ledger, orders, dryRun, clientOk, pc, users, ui, syms, si, ev,
           result, faultUser, persisted, nOpen, nClose, frames, sig, fe, sup, res >>

\* the uids of users.json, in file order (the order of line 214's loop)
Users == {1, 2}
NUsers == Cardinality(Users)
Keys == Users \X Symbols

EvNone ==
  [ outcome |-> "none", fetch |-> "", idx |-> 0, uid |-> 0, symbol |-> "", pos |-> NoPos, price |-> 0,
    qty |-> 0, buy_ok |-> FALSE, sell_ok |-> FALSE, min_notional |-> 0,
    ledger0 |-> 0, orders0 |-> 0, place |-> "none", bal |-> 0,
    bal_called |-> FALSE ]

SigNone == [phase |-> "off"]

\* no db_json mutator in flight, none done
FeIdle == [phase |-> "idle", uid |-> 0, op |-> "", snap |-> << >>, done |-> {}]
\* main.py is not part of the run: one trading_core process, started by hand
SupNone == [phase |-> "off"]
ResNone == [phase |-> "off"]

\* ------------------------------------------------- inputs of one evaluation
\* what client.fetch_ohlcv_df can hand back (trading_core.py:276-293):
\* it raises, returns None, an empty frame, a frame without "close", the raw
\* response dict of client.py:144, or a usable frame
FetchSkips == {"raises", "none", "empty", "noclose"}
FetchResults == FetchSkips \cup {"rawdict", "df"}

\* what validate_symbols_public can confirm (trading_core.py:129-186): nothing
\* (the lookups fail), one symbol only, or every symbol
ValidationResults == { {}, {ETH}, Symbols }

Prices == {10, 50}
Balances == {BalNone, 40, 100}
\* what client.place_order does (client.py:149-168, trading_core.py:365-370):
\* a response, an error payload, or an exception
Resps == {"ok", "error", "raises"}

\* the indicator readings of a usable frame
EvalInputs ==
  [ rsi : { <<30>>, <<NaN>>, <<70>> },
    ema_fast : {1, 2}, ema_slow : {1},
    macd : {-1, 1},
    price : Prices, bal : Balances ]

\* ----------------------------------------------------------------- actions
Init ==
  /\ store \in [Users -> UserKinds]
  /\ ledger = << >>
  /\ orders = << >>
  /\ dryRun \in BOOLEAN
  /\ clientOk \in BOOLEAN
  /\ pc = "sleep"
  /\ users = store
  /\ ui = 0
  /\ syms = << >>
  /\ si = 0
  /\ ev = EvNone
  /\ result = "none"
  /\ faultUser = 0
  /\ persisted = {}
  /\ nOpen = [k \in Keys |-> 0]
  /\ nClose = [k \in Keys |-> 0]
  /\ frames = 0
  /\ sig = SigNone
  /\ fe = FeIdle
  /\ sup = SupNone
  /\ res = ResNone

\* trading_core.py:439-441, 208-214  main_loop starts an iteration: load_users
Load ==
  /\ pc = "sleep"
  /\ users' = store
  /\ ui' = 1
  /\ pc' = "user"
  /\ syms' = << >>
  /\ si' = 0
  /\ ev' = EvNone
  /\ result' = "none"
  /\ faultUser' = 0
  /\ persisted' = {}
  /\ UNCHANGED << store, ledger, orders, dryRun, clientOk, nOpen, nClose, frames, sig,
                  fe, sup, res >>

\* trading_core.py:439-444  main_loop after run_trading_iteration returned or
\* raised (except Exception: log): time.sleep(max(1, SLEEP_SECONDS))
\* (faulty variant: no try around the call, an exception ends main_loop)
PcAfterIterationNoTry(outcome) == IF outcome = "raised" THEN "exit" ELSE "sleep"
PcAfterIteration(outcome) == "sleep"

\* trading_core.py:214  the for loop moves to the next user, or the iteration returns
PcAfterUser(u) == IF u < NUsers THEN "user" ELSE PcAfterIteration("returned")

\* trading_core.py:214-272  one user's steps before the symbol loop
UserBegin ==
  /\ pc = "user"
  /\ LET u == users[ui] IN
       IF ~Eligible(u)
       THEN \* continue (lines 223, 226, 228, 235, 245)
            /\ pc' = PcAfterUser(ui)
            /\ ui' = IF ui < NUsers THEN ui + 1 ELSE ui
            /\ result' = IF ui < NUsers THEN result ELSE "returned"
            /\ UNCHANGED << syms, si >>
       ELSE IF ~u.wellformed
       THEN \* line 248 raises outside every try: the iteration ends here
            /\ pc' = PcAfterIteration("raised")
            /\ result' = "raised"
            /\ UNCHANGED << ui, syms, si >>
       ELSE \E ok \in ValidationResults :
            /\ syms' = SymsToUse(Normalized(u.settings), ok)
            /\ si' = 1
            /\ pc' = "symbol"
            /\ UNCHANGED << ui, result >>
  /\ UNCHANGED << store, ledger, orders, dryRun, clientOk, users, ev,
                  faultUser, persisted, nOpen, nClose, frames, sig,
                  fe, sup, res >>

\* trading_core.py:273, 409-411  after a unit of work, whatever its outcome,
\* the for loop takes the next symbol; after the last one comes the persist step
\* (faulty variant: the per-symbol except re-raising)
PcAfterSymbolPropagate(outcome, i, n) ==
  IF outcome = "raised" THEN "abort" ELSE IF i < n THEN "symbol" ELSE "persist"
\* (faulty variant: a symbol without data ends the user's symbol loop)
PcAfterSymbolBreak(outcome, i, n) ==
  IF outcome = "done" /\ i < n THEN "symbol" ELSE "persist"
PcAfterSymbol(outcome, i, n) == IF i < n THEN "symbol" ELSE "persist"

\* the control part of a per-symbol step
SymbolDone(outcome) ==
  LET next == PcAfterSymbol(outcome, si, Len(syms)) IN
  /\ pc' = IF next = "abort" THEN PcAfterIteration("raised") ELSE next
  /\ result' = IF next = "abort" THEN "raised" ELSE result
  /\ si' = IF next = "symbol" THEN si + 1 ELSE si
  /\ faultUser' = IF faultUser = 0 /\ outcome # "done" THEN ui ELSE faultUser
  /\ UNCHANGED << ui, syms >>

\* trading_core.py:276-291  no usable candles: the symbol is skipped (continue)
FetchSkip ==
  /\ pc = "symbol"
  /\ \E f \in FetchResults :
       /\ IF clientOk THEN f \in FetchSkips ELSE f = "none"
       /\ ev' = [EvNone EXCEPT !.outcome = "skipped", !.idx = si,
                               !.fetch = IF f = "raises" THEN "raises" ELSE "nodata",
                               !.uid = ui, !.symbol = syms[si],
                               !.pos = users[ui]._positions[syms[si]],
                               !.ledger0 = Len(ledger), !.orders0 = Len(orders)]
  /\ SymbolDone("skipped")
  /\ UNCHANGED << store, ledger, orders, dryRun, clientOk, users,
                  persisted, nOpen, nClose, frames, sig,
                  fe, sup, res >>

\* trading_core.py:279, 293, 409-410  the fetch hands back the raw response
\* dict of client.py:144: df['close'] raises, caught by the per-symbol except
FetchRaise ==
  /\ pc = "symbol"
  /\ clientOk
  /\ \E f \in FetchResults : f = "rawdict"
  /\ ev' = [EvNone EXCEPT !.outcome = "raised", !.fetch = "rawdict", !.idx = si,
                          !.uid = ui, !.symbol = syms[si],
                          !.pos = users[ui]._positions[syms[si]],
                          !.ledger0 = Len(ledger), !.orders0 = Len(orders)]
  /\ SymbolDone("raised")
  /\ UNCHANGED << store, ledger, orders, dryRun, clientOk, users,
                  persisted, nOpen, nClose, frames, sig,
                  fe, sup, res >>

\* trading_core.py:279  the fetch hands back a usable frame
FetchOk ==
  /\ pc = "symbol"
  /\ clientOk
  /\ \E f \in FetchResults : f = "df"
  /\ frames < MaxFrames
  /\ frames' = frames + 1
  /\ pc' = "eval"
  /\ ev' = EvNone
  /\ UNCHANGED << store, ledger, orders, dryRun, clientOk, users, ui, syms, si,
                  result, faultUser, persisted, nOpen, nClose, sig,
                  fe, sup, res >>

\* trading_core.py:293-407  a usable frame: indicators, sizing, decision
EvalWith(inputs) ==
  /\ pc = "eval"
  /\ \E inp \in inputs :
       LET symbol == syms[si]
           u   == users[ui]
           ms  == MergedSettings(u.settings)
           loc == Locals(ms, inp)
           pos == u._positions[symbol]
           placing == Placing(dryRun, clientOk)
           k   == <<ui, symbol>>
           \* place_order has an outcome only where it is called
           called == placing /\
                     (\/ BuyBranch(pos, loc.buy_ok, loc.qty, loc.price, ms.MIN_NOTIONAL)
                      \/ SellBranch(pos, loc.sell_ok)
                         /\ SellLoud(QtyToSell(pos, loc.qty), loc.price, ms.MIN_NOTIONAL))
       IN \E resp \in (IF called THEN Resps ELSE {"ok"}) :
          LET d == Decide(ui, symbol, pos, loc.buy_ok, loc.sell_ok, loc.qty,
                          loc.price, ms.MIN_NOTIONAL, placing, resp)
          IN
          /\ ledger' = ledger \o d.trades
          /\ orders' = orders \o d.orders
          /\ users' = [users EXCEPT ![ui]._positions[symbol] = d.pos]
          /\ ev' = [ outcome |-> "done", fetch |-> "df", idx |-> si, uid |-> ui, symbol |-> symbol, pos |-> pos,
                     price |-> loc.price, qty |-> loc.qty, buy_ok |-> loc.buy_ok,
                     sell_ok |-> loc.sell_ok, min_notional |-> ms.MIN_NOTIONAL,
                     ledger0 |-> Len(ledger), orders0 |-> Len(orders),
                     place |-> IF d.orders # << >> THEN resp ELSE "none",
                     bal |-> inp.bal, bal_called |-> TRUE ]
          /\ nOpen' = [nOpen EXCEPT ![k] =
                         @ + IF IsNone(pos) /\ ~IsNone(d.pos) THEN 1 ELSE 0]
          /\ nClose' = [nClose EXCEPT ![k] =
                         @ + IF ~IsNone(pos) /\ IsNone(d.pos)
                                 /\ pos.qty * loc.price >= ms.MIN_NOTIONAL * QUnit
                              THEN 1 ELSE 0]
  /\ SymbolDone("done")
  /\ UNCHANGED << store, dryRun, clientOk, persisted, frames, sig,
                  fe, sup, res >>

EvalSymbol == EvalWith(EvalInputs)

\* trading_core.py:416  users_all[str(uid)] = u: the in-memory record replaces
\* the stored one whole
\* (faulty variant: only the position map is merged into the stored record)
PersistedRecordMerge(stored, u) == [stored EXCEPT !._positions = u._positions]
PersistedRecord(stored, u) == u

\* trading_core.py:413-426  persist the user: load_users, replace the record, save
Persist ==
  /\ pc = "persist"
  /\ store' = [store EXCEPT ![ui] = PersistedRecord(store[ui], users[ui])]
  /\ persisted' = persisted \cup {ui}
  /\ pc' = PcAfterUser(ui)
  /\ ui' = IF ui < NUsers THEN ui + 1 ELSE ui
  /\ result' = IF ui < NUsers THEN result ELSE "returned"
  /\ ev' = EvNone
  /\ syms' = << >>
  /\ si' = 0
  /\ UNCHANGED << ledger, orders, dryRun, clientOk, users,
                  faultUser, nOpen, nClose, frames, sig,
                  fe, sup, res >>

Next == Load \/ UserBegin \/ FetchSkip \/ FetchRaise \/ FetchOk \/ EvalSymbol \/ Persist

Spec == Init /\ [][Next]_vars

\* ------------------------------------------------- the signal specification
\* One evaluation of lines 313-407 on every indicator snapshot of the bounded
\* sets below: the RSI series (with missing readings), RSI_CONFIRM, the moving
\* averages, the MACD histogram and the position the key holds.
RsiReadings == {NaN, 30, 40, 60, 70}
RsiSeries == UNION { [1..k -> RsiReadings] : k \in 1..MaxRsiLen }

SignalInputs ==
  [ rsi : RsiSeries, n : 1..(MaxRsiLen + 1),
    ema_fast : {NaN, 1, 2}, ema_slow : {1},
    macd : {NaN, -1, 0, 1},
    pos : {NoPos, LongPos(50, 200000)},
    price : {50}, bal : {100} ]

\* the settings of the evaluation: the default user's, RSI_CONFIRM from the
\* environment (trading_core.py:57, 272)
SignalSettings(n) ==
  [MergedSettings(DefaultUserSettings) EXCEPT !.RSI_CONFIRM = n]

InitSignal ==
  /\ store = [u \in Users |-> UserRec("future", "b64", "b64", DefaultUserSettings, TRUE)]
  /\ ledger = << >>
  /\ orders = << >>
  /\ dryRun = TRUE
  /\ clientOk = TRUE
  /\ pc = "eval"
  /\ users = store
  /\ ui = 1
  /\ syms = << BTC >>
  /\ si = 1
  /\ ev = EvNone
  /\ result = "none"
  /\ faultUser = 0
  /\ persisted = {}
  /\ nOpen = [k \in Keys |-> 0]
  /\ nClose = [k \in Keys |-> 0]
  /\ frames = 0
  /\ \E inp \in SignalInputs : sig = [phase |-> "in", inp |-> inp]
  /\ fe = FeIdle
  /\ sup = SupNone
  /\ res = ResNone

\* trading_core.py:313-407 on the snapshot sig.inp
SignalEval ==
  /\ sig.phase = "in"
  /\ LET inp == sig.inp
         ms  == SignalSettings(inp.n)
         loc == Locals(ms, inp)
         d   == Decide(ui, syms[si], inp.pos, loc.buy_ok, loc.sell_ok, loc.qty,
                       loc.price, ms.MIN_NOTIONAL, FALSE, "ok")
     IN sig' = [ phase |-> "out", inp |-> inp, ms |-> ms, loc |-> loc,
                 pos |-> d.pos, trades |-> d.trades ]
  /\ UNCHANGED << store, ledger, orders, dryRun, clientOk, pc, users, ui, syms, si,
                  ev, result, faultUser, persisted, nOpen, nClose, frames,
                  fe, sup, res >>

\* trading_core.py:313-407 once more on the same indicator snapshot and
\* settings, for the other user, with the position the first evaluation left
SignalReeval ==
  /\ sig.phase = "out"
  /\ LET inp == [sig.inp EXCEPT !.pos = sig.pos]
         loc == Locals(sig.ms, inp)
         d   == Decide(2, syms[si], inp.pos, loc.buy_ok, loc.sell_ok, loc.qty,
                       loc.price, sig.ms.MIN_NOTIONAL, FALSE, "ok")
     IN sig' = [ phase |-> "again", inp |-> sig.inp, ms |-> sig.ms, loc |-> sig.loc,
                 pos |-> sig.pos, trades |-> sig.trades,
                 loc2 |-> loc, pos2 |-> d.pos ]
  /\ UNCHANGED << store, ledger, orders, dryRun, clientOk, pc, users, ui, syms, si,
                  ev, result, faultUser, persisted, nOpen, nClose, frames,
                  fe, sup, res >>

NextSignal == SignalEval \/ SignalReeval

SpecSignal == InitSignal /\ [][NextSignal]_vars

\* ------------------------------------------- the front end and the clock
\* The engine next to the other writer of users.json, tg_app.py, whose every
\* change goes through a db_json mutator (load the whole file, change one
\* record, write the whole file), and next to the clock that lets a
\* subscription lapse.
\* db_json.py:103-109  update_setting on the loaded dict
update_setting(us, uid, key, value) ==
  [us EXCEPT ![uid].settings =
     [k \in (DOMAIN us[uid].settings) \cup {key} |->
        IF k = key THEN value ELSE us[uid].settings[k]]]

\* db_json.py:77-84  set_api_keys on the loaded dict
set_api_keys(us, uid, api_key, api_secret) ==
  [us EXCEPT ![uid].api_key = api_key, ![uid].api_secret = api_secret]

\* db_json.py:86-92  set_subscription on the loaded dict: now + days
set_subscription(us, uid) == [us EXCEPT ![uid].sub_until = "renewed"]

\* the mutator calls of tg_app.py the model makes: trading switched off
\* (tg_app.py:721), new keys saved (670), a paid invoice credited (1242)
FrontOps == {"active", "keys", "sub"}

Mutated(us, uid, op) ==
  CASE op = "active" -> update_setting(us, uid, "active", FALSE)
    [] op = "keys"   -> set_api_keys(us, uid, "b64n", "b64n")
    [] op = "sub"    -> set_subscription(us, uid)

\* the records of the front-end runs: a user trading one stored pair, and a
\* user who has not saved keys yet
FrontKinds ==
  { UserRec("future", "b64", "b64",
            [ RSI_OVERSOLD |-> 40, RSI_OVERBOUGHT |-> 60, ORDER_PERCENT |-> 10,
              ORDER_SIZE_USD |-> 0, symbols |-> <<"BTC/USDT">> ], TRUE),
    UserRec("future", "", "", DefaultUserSettings, TRUE) }

InitFront ==
  /\ store \in [Users -> FrontKinds]
  /\ ledger = << >>
  /\ orders = << >>
  /\ dryRun = TRUE
  /\ clientOk = TRUE
  /\ pc = "sleep"
  /\ users = store
  /\ ui = 0
  /\ syms = << >>
  /\ si = 0
  /\ ev = EvNone
  /\ result = "none"
  /\ faultUser = 0
  /\ persisted = {}
  /\ nOpen = [k \in Keys |-> 0]
  /\ nClose = [k \in Keys |-> 0]
  /\ frames = 0
  /\ sig = SigNone
  /\ fe = FeIdle
  /\ sup = SupNone
  /\ res = ResNone

\* The engine touches users.json at load_users (line 209) and in the persist
\* step only, and after line 228 it no longer looks at the clock: a step of the
\* front end or of the clock taken while a user's symbols are being processed
\* has the effect of the same step taken before that user was begun.  The
\* steps below are therefore taken between users.
BetweenUsers == pc \in {"sleep", "user"}

\* db_json.py:79, 88, 105  a mutator loads the whole users file
FrontLoad ==
  /\ BetweenUsers
  /\ fe.phase = "idle"
  /\ Cardinality(fe.done) < MaxFrontOps
  /\ \E u \in Users, op \in FrontOps :
       /\ <<u, op>> \notin fe.done
       /\ fe' = [fe EXCEPT !.phase = "loaded", !.uid = u, !.op = op, !.snap = store]
  /\ UNCHANGED << store, ledger, orders, dryRun, clientOk, pc, users, ui, syms, si,
                  ev, result, faultUser, persisted, nOpen, nClose, frames, sig,
                  sup, res >>

\* db_json.py:82-84, 91-92, 108-109  it changes one record of its copy and
\* writes the whole copy back
FrontSave ==
  /\ BetweenUsers
  /\ fe.phase = "loaded"
  /\ store' = Mutated(fe.snap, fe.uid, fe.op)
  /\ fe' = [fe EXCEPT !.phase = "idle", !.uid = 0, !.op = "", !.snap = << >>,
                      !.done = @ \cup {<<fe.uid, fe.op>>}]
  /\ UNCHANGED << ledger, orders, dryRun, clientOk, pc, users, ui, syms, si,
                  ev, result, faultUser, persisted, nOpen, nClose, frames, sig,
                  sup, res >>

\* trading_core.py:224  the date a record holds as sub_until passes
Lapsed(us, u) ==
  [us EXCEPT ![u].sub_until = IF @ = "future" THEN "past" ELSE @]

Expire ==
  /\ BetweenUsers
  /\ \E u \in Users :
       /\ store[u].sub_until = "future" \/ users[u].sub_until = "future"
       /\ store' = Lapsed(store, u)
       /\ users' = Lapsed(users, u)
       /\ fe' = IF fe.phase = "loaded" THEN [fe EXCEPT !.snap = Lapsed(@, u)] ELSE fe
  /\ UNCHANGED << ledger, orders, dryRun, clientOk, pc, ui, syms, si,
                  ev, result, faultUser, persisted, nOpen, nClose, frames, sig,
                  sup, res >>

\* the indicator readings of the front-end runs: an OPEN verdict and a CLOSE
\* verdict at one price and one balance
FrontInputs ==
  [ rsi : { <<30>>, <<70>> }, ema_fast : {2}, ema_slow : {1}, macd : {1},
    price : {50}, bal : {100} ]

FrontEval == EvalWith(FrontInputs)

NextFront ==
  \/ Load \/ UserBegin \/ FetchSkip \/ FetchRaise \/ FetchOk \/ FrontEval \/ Persist
  \/ FrontLoad \/ FrontSave \/ Expire

SpecFront == InitFront /\ [][NextFront]_vars

\* ------------------------------------------------------- the supervisor
\* main.py's run_trading_core thread and the trading_core.py processes it
\* starts; a process is main_loop: sleep, one iteration over the units of work
\* (user, symbol) in file order, sleep, ...
ProcIds == 1..MaxProcs

\* the engine itself at rest, for the specifications of one part of the program
EngineParked ==
  /\ store = [u \in Users |-> UserRec("future", "b64", "b64", DefaultUserSettings, TRUE)]
  /\ ledger = << >>
  /\ orders = << >>
  /\ dryRun = TRUE
  /\ clientOk = TRUE
  /\ pc = "sleep"
  /\ users = store
  /\ ui = 0
  /\ syms = << >>
  /\ si = 0
  /\ ev = EvNone
  /\ result = "none"
  /\ faultUser = 0
  /\ persisted = {}
  /\ nOpen = [k \in Keys |-> 0]
  /\ nClose = [k \in Keys |-> 0]
  /\ frames = 0

ProcOff == [st |-> "off", at |-> 0, last |-> "none"]

\* the units of work of an iteration: each user's symbols, users in file order
UnitsOf(l1, l2) ==
  [i \in 1..Len(l1) |-> <<1, l1[i]>>] \o [i \in 1..Len(l2) |-> <<2, l2[i]>>]

InitSup ==
  /\ EngineParked
  /\ sig = SigNone
  /\ fe = FeIdle
  /\ res = ResNone
  /\ \E l1 \in {<<BTC>>, <<BTC, ETH>>}, l2 \in {<<BTC>>, <<ETH, BTC>>} :
       sup = [ phase |-> "on", thread |-> "spawn", units |-> UnitsOf(l1, l2),
               procs |-> [p \in ProcIds |-> ProcOff] ]

Alive(p) == sup.procs[p].st \in {"sleep", "run"}

\* main.py:63  subprocess.run(...) returns only when the child has exited
\* (faulty variant: the child is started without waiting for it, as Popen does)
ThreadAfterSpawnNoWait(p) == "spawn"
ThreadAfterSpawn(p) == "wait"

\* main.py:60-63  the thread starts a trading_core.py process
SupSpawn ==
  /\ sup.phase = "on" /\ sup.thread = "spawn"
  /\ \E p \in ProcIds :
       /\ sup.procs[p].st = "off"
       /\ \A q \in ProcIds : q < p => sup.procs[q].st # "off"
       /\ sup' = [sup EXCEPT !.thread = ThreadAfterSpawn(p),
                             !.procs[p] = [st |-> "sleep", at |-> 0, last |-> "none"]]
  /\ UNCHANGED << store, ledger, orders, dryRun, clientOk, pc, users, ui, syms, si,
                  ev, result, faultUser, persisted, nOpen, nClose, frames, sig,
                  fe, res >>

\* trading_core.py:439-441  main_loop calls run_trading_iteration
ProcIterBegin ==
  /\ sup.phase = "on"
  /\ \E p \in ProcIds :
       /\ sup.procs[p].st = "sleep"
       /\ sup' = [sup EXCEPT !.procs[p].st = "run", !.procs[p].at = 1]
  /\ UNCHANGED << store, ledger, orders, dryRun, clientOk, pc, users, ui, syms, si,
                  ev, result, faultUser, persisted, nOpen, nClose, frames, sig,
                  fe, res >>

\* trading_core.py:214, 273  the unit of work ends, the loops take the next one;
\* after the last one the iteration returns to main_loop's sleep (line 444)
ProcUnitDone ==
  /\ sup.phase = "on"
  /\ \E p \in ProcIds :
       /\ sup.procs[p].st = "run"
       /\ sup' = IF sup.procs[p].at < Len(sup.units)
                 THEN [sup EXCEPT !.procs[p].at = @ + 1]
                 ELSE [sup EXCEPT !.procs[p] = [st |-> "sleep", at |-> 0, last |-> "returned"]]
  /\ UNCHANGED << store, ledger, orders, dryRun, clientOk, pc, users, ui, syms, si,
                  ev, result, faultUser, persisted, nOpen, nClose, frames, sig,
                  fe, res >>

\* trading_core.py:442-444  the iteration raises: logged, then the sleep
ProcIterRaise ==
  /\ sup.phase = "on"
  /\ \E p \in ProcIds :
       /\ sup.procs[p].st = "run"
       /\ sup' = [sup EXCEPT !.procs[p] = [st |-> "sleep", at |-> 0, last |-> "raised"]]
  /\ UNCHANGED << store, ledger, orders, dryRun, clientOk, pc, users, ui, syms, si,
                  ev, result, faultUser, persisted, nOpen, nClose, frames, sig,
                  fe, res >>

\* the process ends (killed, KeyboardInterrupt at trading_core.py:449, an
\* import failing at line 87): with exit code 0 subprocess.run returns and the
\* thread loops (main.py:60), otherwise CalledProcessError and the 5 s sleep
\* (main.py:64-66); a thread that did not wait is not told
ProcExit ==
  /\ sup.phase = "on"
  /\ \E p \in ProcIds, code \in {0, 1} :
       /\ Alive(p)
       /\ sup' = [sup EXCEPT !.procs[p] = [st |-> "dead", at |-> 0, last |-> "none"],
                             !.thread = IF @ = "wait"
                                        THEN (IF code = 0 THEN "spawn" ELSE "backoff")
                                        ELSE @]
  /\ UNCHANGED << store, ledger, orders, dryRun, clientOk, pc, users, ui, syms, si,
                  ev, result, faultUser, persisted, nOpen, nClose, frames, sig,
                  fe, res >>

\* main.py:66, 69  time.sleep(5) is over
SupBackoffDone ==
  /\ sup.phase = "on" /\ sup.thread = "backoff"
  /\ sup' = [sup EXCEPT !.thread = "spawn"]
  /\ UNCHANGED << store, ledger, orders, dryRun, clientOk, pc, users, ui, syms, si,
                  ev, result, faultUser, persisted, nOpen, nClose, frames, sig,
                  fe, res >>

NextSup ==
  SupSpawn \/ ProcIterBegin \/ ProcUnitDone \/ ProcIterRaise \/ ProcExit \/ SupBackoffDone

SpecSup == InitSup /\ [][NextSup]_vars

\* ------------------------------------------------------- the scheduler, fair
\* main_loop as a running process: a step that can be taken is eventually taken
\* (time.sleep returns, the exchange calls return or time out)
LiveKinds ==
  { UserRec("future", "b64", "b64",
            [ RSI_OVERSOLD |-> 40, RSI_OVERBOUGHT |-> 60, ORDER_PERCENT |-> 10,
              ORDER_SIZE_USD |-> 0, symbols |-> <<"BTC/USDT">> ], TRUE),
    UserRec("future", "b64", "b64", DefaultUserSettings, FALSE) }

InitLive ==
  /\ store \in [Users -> LiveKinds]
  /\ ledger = << >>
  /\ orders = << >>
  /\ dryRun = TRUE
  /\ clientOk = TRUE
  /\ pc = "sleep"
  /\ users = store
  /\ ui = 0
  /\ syms = << >>
  /\ si = 0
  /\ ev = EvNone
  /\ result = "none"
  /\ faultUser = 0
  /\ persisted = {}
  /\ nOpen = [k \in Keys |-> 0]
  /\ nClose = [k \in Keys |-> 0]
  /\ frames = 0
  /\ sig = SigNone
  /\ fe = FeIdle
  /\ sup = SupNone
  /\ res = ResNone

SpecLive == InitLive /\ [][Next]_vars /\ WF_vars(Next)

\* ----------------------------------------------------- symbol resolution
\* trading_core.py:257-269 as a function of the stored list and of what the
\* exchange confirms
RawSymbols == {"BTC/USDT", "eth/usdt", "ETH-USDT", "ETHUSDT", "/"}

RawLists == UNION { [1..n -> RawSymbols] : n \in 0..MaxSyms }

InitSymbols ==
  /\ EngineParked
  /\ sig = SigNone
  /\ fe = FeIdle
  /\ sup = SupNone
  /\ \E raw \in RawLists, ok \in SUBSET Symbols :
       res = [phase |-> "in", raw |-> raw, ok |-> ok]

SymbolsResolve ==
  /\ res.phase = "in"
  /\ LET normalized == Normalized([symbols |-> res.raw]) IN
       res' = [ phase |-> "out", raw |-> res.raw, ok |-> res.ok,
                normalized |-> normalized,
                syms_to_use |-> SymsToUse(normalized, res.ok) ]
  /\ UNCHANGED << store, ledger, orders, dryRun, clientOk, pc, users, ui, syms, si,
                  ev, result, faultUser, persisted, nOpen, nClose, frames, sig,
                  fe, sup >>

NextSymbols == SymbolsResolve

SpecSymbols == InitSymbols /\ [][NextSymbols]_vars

\* ------------------------------------------------------------ order sizing
\* trading_core.py:323-376 as a function of the stored sizing settings, the
\* balance and the price, for a FLAT key with a buy signal
SizingInputs ==
  [ ORDER_SIZE_USD : {0, 10, 20}, ORDER_PERCENT : {5, 10, 150},
    QTY_PRECISION : {0, 2, 6},
    bal : {BalNone, 0, 8, 12}, price : {0, 3, 10, 50} ]

SizingSettings(inp) ==
  MergedSettings([ DefaultUserSettings EXCEPT
                     !.ORDER_SIZE_USD = inp.ORDER_SIZE_USD,
                     !.ORDER_PERCENT = inp.ORDER_PERCENT ]
                 @@ [ QTY_PRECISION |-> inp.QTY_PRECISION ])

InitSizing ==
  /\ EngineParked
  /\ fe = FeIdle
  /\ sup = SupNone
  /\ res = ResNone
  /\ \E inp \in SizingInputs : sig = [phase |-> "size_in", inp |-> inp]

SizeEval ==
  /\ sig.phase = "size_in"
  /\ LET inp == sig.inp
         ms  == SizingSettings(inp)
         qty == SizedQty(ms, inp.bal, inp.price)
         d   == Decide(1, BTC, NoPos, TRUE, FALSE, qty, inp.price,
                       ms.MIN_NOTIONAL, FALSE, "ok")
     IN sig' = [ phase |-> "size_out", inp |-> inp, ms |-> ms,
                 order_cents |-> OrderCents(ms, inp.bal), qty |-> qty,
                 pos |-> d.pos, trades |-> d.trades ]
  /\ UNCHANGED << store, ledger, orders, dryRun, clientOk, pc, users, ui, syms, si,
                  ev, result, faultUser, persisted, nOpen, nClose, frames,
                  fe, sup, res >>

NextSizing == SizeEval

SpecSizing == InitSizing /\ [][NextSizing]_vars

\* ------------------------------------------------------- floor_qty on floats
\* trading_core.py:110-117 as Python computes it: qty, float(qty) * factor and
\* the final quotient are binary floats, each operation rounded to the nearest
\* float (ties to even).  A positive float is <<m, e>>, the value m * 2^e with
\* 2^(FloatBits-1) <= m < 2^FloatBits; 0.0 is <<0, 0>>.
RECURSIVE Pow2(_)
Pow2(n) == IF n <= 0 THEN 1 ELSE 2 * Pow2(n - 1)

FloatZero == <<0, 0>>

\* num / den / 2^e as a fraction of integers
Scaled(num, den, e) ==
  IF e >= 0 THEN <<num, den * Pow2(e)>> ELSE <<num * Pow2(0 - e), den>>

\* the float nearest to the rational num / den (> 0), ties to even
RoundToFloat(num, den) ==
  LET lo == Pow2(FloatBits - 1)
      hi == Pow2(FloatBits)
      e  == CHOOSE x \in -16..16 :
              LET sc == Scaled(num, den, x)
              IN lo * sc[2] <= sc[1] /\ sc[1] < hi * sc[2]
      sc == Scaled(num, den, e)
      m0 == sc[1] \div sc[2]
      r  == sc[1] % sc[2]
      m  == IF 2 * r < sc[2] THEN m0
            ELSE IF 2 * r > sc[2] THEN m0 + 1
            ELSE IF m0 % 2 = 0 THEN m0 ELSE m0 + 1
  IN IF m = hi THEN <<lo, e + 1>> ELSE <<m, e>>

\* math.floor of a non-negative float
FloatFloor(f) ==
  IF f[2] >= 0 THEN f[1] * Pow2(f[2]) ELSE f[1] \div Pow2(0 - f[2])

\* f > g for non-negative floats
FloatGreater(f, g) ==
  LET k == Min(f[2], g[2])
  IN f[1] * Pow2(f[2] - k) > g[1] * Pow2(g[2] - k)

\* trading_core.py:110-117  floor_qty(qty, prec) on a float qty
FloatFloorQty(q, prec) ==
  IF q[1] <= 0 THEN FloatZero
  ELSE LET factor == Pow10(prec)
           prod   == IF q[2] >= 0
                     THEN RoundToFloat(q[1] * factor * Pow2(q[2]), 1)
                     ELSE RoundToFloat(q[1] * factor, Pow2(0 - q[2]))
           n      == FloatFloor(prod)
       IN IF n = 0 THEN FloatZero ELSE RoundToFloat(n, factor)

\* the floats qty ranges over, 0.0 included, and the precisions
FloatInputs ==
  [ q : ((Pow2(FloatBits - 1)..(Pow2(FloatBits) - 1)) \X (-8..0)) \cup {FloatZero},
    prec : {1, 2} ]

InitFloat ==
  /\ EngineParked
  /\ fe = FeIdle
  /\ sup = SupNone
  /\ res = ResNone
  /\ \E inp \in FloatInputs : sig = [phase |-> "fl_in", inp |-> inp]

FloatEval ==
  /\ sig.phase = "fl_in"
  /\ sig' = [ phase |-> "fl_out", inp |-> sig.inp,
              out |-> FloatFloorQty(sig.inp.q, sig.inp.prec) ]
  /\ UNCHANGED << store, ledger, orders, dryRun, clientOk, pc, users, ui, syms, si,
                  ev, result, faultUser, persisted, nOpen, nClose, frames,
                  fe, sup, res >>

NextFloat == FloatEval

SpecFloat == InitFloat /\ [][NextFloat]_vars

\* --------------------------------------------------------- the ledger file
\* db_json.py:111-116 on trades.json (the variable ledger), with the outcomes
\* _read and _write can have (db_json.py:23-44): _read hands back its default
\* [] when the file cannot be opened or parsed, _write gives up silently when
\* the file cannot be opened for writing.  res.appended lists the records
\* append_trade was called with.
LedgerTrades == { Trade(1, BTC, side, price, QUnit, "absent") :
                    side \in {"BUY", "SELL"}, price \in Prices }

InitLedger ==
  /\ EngineParked
  /\ sig = SigNone
  /\ fe = FeIdle
  /\ sup = SupNone
  /\ res = [phase |-> "log", appended |-> << >>]

\* db_json.py:23-34  _read(path, [])
ReadTrades(file, read_ok) == IF read_ok THEN file ELSE << >>

\* db_json.py:36-44  _write(path, data)
WrittenTrades(file, data, write_ok) == IF write_ok THEN data ELSE file

\* db_json.py:111-116  append_trade(trade)
AppendTrade ==
  /\ res.phase = "log"
  /\ Len(res.appended) < MaxAppends
  /\ \E trade \in LedgerTrades, read_ok \in BOOLEAN, write_ok \in BOOLEAN :
       LET trades == Append(ReadTrades(ledger, read_ok), trade)
       IN /\ ledger' = WrittenTrades(ledger, trades, write_ok)
          /\ res' = [res EXCEPT !.appended = Append(@, trade)]
  /\ UNCHANGED << store, orders, dryRun, clientOk, pc, users, ui, syms, si,
                  ev, result, faultUser, persisted, nOpen, nClose, frames, sig,
                  fe, sup >>

NextLedger == AppendTrade

SpecLedger == InitLedger /\ [][NextLedger]_vars

\* ---------------------------------------------------------- the RSI series
\* trading_core.py:197-205  rsi_series_custom(close, rsi_period): the ta
\* library's RSIIndicator (Wilder's smoothing, 100 where the smoothed loss is
\* 0) and, when that raises, the rolling-mean computation of lines 201-205.
\* A value is a fraction n/d, an infinity or NaN; the arithmetic is pandas'
\* float arithmetic without its rounding (x / 0 is an infinity, 0 / 0 is NaN).
RsiNum(n, d) == [k |-> "num", n |-> n, d |-> d]
RsiNaN == [k |-> "nan", n |-> 0, d |-> 1]
RsiInf == [k |-> "inf", n |-> 0, d |-> 1]

\* close.diff() at position i (1-based); position 1 has no predecessor
Delta(close, i) == close[i] - close[i - 1]
UpMove(close, i) == IF i = 1 THEN 0 ELSE Max(Delta(close, i), 0)
DownMove(close, i) == IF i = 1 THEN 0 ELSE Max(0 - Delta(close, i), 0)

RECURSIVE PowN(_, _)
PowN(b, e) == IF e <= 0 THEN 1 ELSE b * PowN(b, e - 1)

RECURSIVE SumMoves(_, _, _, _)
SumMoves(close, up, from, to) ==
  IF from > to THEN 0
  ELSE (IF up THEN UpMove(close, to) ELSE DownMove(close, to))
       + SumMoves(close, up, from, to - 1)

\* pandas float division up / down of two non-negative numbers
\* (faulty variant: a zero divisor gives NaN)
FloatDivZeroNaN(a, b) == IF b = 0 THEN RsiNaN ELSE RsiNum(a, b)
FloatDiv(a, b) ==
  IF b = 0 THEN (IF a = 0 THEN RsiNaN ELSE RsiInf) ELSE RsiNum(a, b)

\* 100 - (100 / (1 + rs)): 100 / infinity is 0
RsiOf(rs) ==
  CASE rs.k = "nan" -> RsiNaN
    [] rs.k = "inf" -> RsiNum(100, 1)
    [] OTHER        -> RsiNum(100 * rs.n, rs.n + rs.d)

\* trading_core.py:201-205 at position t: rolling(rsi_period).mean() is NaN
\* while the window holds the NaN of diff's first position
RsiFallbackAt(close, n, t) ==
  IF t - n + 1 < 2 THEN RsiNaN
  ELSE RsiOf(FloatDiv(SumMoves(close, TRUE, t - n + 1, t),
                      SumMoves(close, FALSE, t - n + 1, t)))

\* Wilder's smoothing ewm(alpha = 1/n, adjust = False) at position t, as the
\* numerator over n^(t-1)
RECURSIVE Wilder(_, _, _, _)
Wilder(close, up, n, t) ==
  LET x == IF up THEN UpMove(close, t) ELSE DownMove(close, t)
  IN IF t = 1 THEN x
     ELSE (n - 1) * Wilder(close, up, n, t - 1) + x * PowN(n, t - 2)

\* trading_core.py:199  ta.momentum.RSIIndicator(close, window).rsi() at
\* position t: NaN for the first window - 1 positions (min_periods)
RsiTaAt(close, n, t) ==
  LET emaup == Wilder(close, TRUE, n, t)
      emadn == Wilder(close, FALSE, n, t)
  IN IF t < n THEN RsiNaN
     ELSE IF emadn = 0 THEN RsiNum(100, 1)
     ELSE RsiOf(RsiNum(emaup, emadn))

rsi_series_custom(close, rsi_period, ta_raises) ==
  [ t \in 1..Len(close) |->
      IF ta_raises THEN RsiFallbackAt(close, rsi_period, t)
      ELSE RsiTaAt(close, rsi_period, t) ]

RsiCloses == UNION { [1..n -> 1..3] : n \in 1..MaxCloses }

InitRsi ==
  /\ EngineParked
  /\ fe = FeIdle
  /\ sup = SupNone
  /\ res = ResNone
  /\ \E close \in RsiCloses, n \in 1..3, ta_raises \in BOOLEAN :
       sig = [phase |-> "rsi_in", close |-> close, n |-> n, ta_raises |-> ta_raises]

RsiEval ==
  /\ sig.phase = "rsi_in"
  /\ sig' = [ sig EXCEPT !.phase = "rsi_out" ]
            @@ [ rsi_s |-> rsi_series_custom(sig.close, sig.n, sig.ta_raises) ]
  /\ UNCHANGED << store, ledger, orders, dryRun, clientOk, pc, users, ui, syms, si,
                  ev, result, faultUser, persisted, nOpen, nClose, frames,
                  fe, sup, res >>

NextRsi == RsiEval

SpecRsi == InitRsi /\ [][NextRsi]_vars

\* ------------------------------------------------------ the chat with the bot
\* tg_app.py: one user's chat with the bot.  The message handlers are
\* registered on the dispatcher dp (line 78) by the decorators in file order,
\* and a message goes to the first registered handler whose filter passes;
\* a State filter passes for every message sent while the user is in that
\* state.  Listed are the handlers whose filter can pass for the texts below
\* (the others, lines 695, 731, 746, 957, 1042, 1078, 1121-1155, match other
\* texts only).
MessageHandlers ==
  << "cmd_start",             \* 621  Command("start")
     "process_api_key",       \* 655  Form.api_key
     "process_api_secret",    \* 661  Form.api_secret
     "process_pairs_input",   \* 846  Form.pairs_input
     "menu_support",          \* 980  text = the support button
     "process_support_user",  \* 985  Form.support_user
     "process_admin_reply",   \* 1019 Form.admin_reply
     "cmd_cancel" >>          \* 1116 Command("cancel")

ChatTexts == {"/cancel", "/start", "Support", "hello"}
\* tg_app.py:324-329  class Form
FormStates == {"api_key", "api_secret", "support_user", "admin_reply", "pairs_input"}

Filter(h, text, state) ==
  CASE h = "cmd_start"            -> text = "/start"
    [] h = "process_api_key"      -> state = "api_key"
    [] h = "process_api_secret"   -> state = "api_secret"
    [] h = "process_pairs_input"  -> state = "pairs_input"
    [] h = "menu_support"         -> text = "Support"
    [] h = "process_support_user" -> state = "support_user"
    [] h = "process_admin_reply"  -> state = "admin_reply"
    [] h = "cmd_cancel"           -> text = "/cancel"

\* the handler a message is given to: the first registered one that matches
Matching(text, state) ==
  { i \in 1..Len(MessageHandlers) : Filter(MessageHandlers[i], text, state) }
Dispatch(text, state) ==
  IF Matching(text, state) = {} THEN "unhandled"
  ELSE MessageHandlers[CHOOSE i \in Matching(text, state) :
                         \A j \in Matching(text, state) : i <= j]

ChatNone ==
  [ phase |-> "chat", n |-> 0, is_admin |-> FALSE, state |-> "none",
    data_api_key |-> "", api_key |-> "", api_secret |-> "", symbols |-> "",
    admin_inbox |-> {}, user_inbox |-> {},
    kind |-> "", text |-> "", handler |-> "", reply |-> "" ]

InitChat ==
  /\ EngineParked
  /\ fe = FeIdle
  /\ sup = SupNone
  /\ res = ResNone
  /\ \E a \in BOOLEAN : sig = [ChatNone EXCEPT !.is_admin = a]

\* the effect of handler h on message text; ok is the outcome of the call the
\* handler makes (db.set_api_keys, validate_symbols, bot.send_message)
Handled(c, h, text, ok) ==
  LET base == [c EXCEPT !.n = @ + 1, !.kind = "message", !.text = text,
                        !.handler = h]
  IN CASE h = "cmd_start" ->                          \* 622-635
            [base EXCEPT !.reply = "welcome"]
       [] h = "process_api_key" ->                    \* 656-659
            [base EXCEPT !.data_api_key = text, !.reply = "enter_api_secret",
                         !.state = "api_secret"]
       [] h = "process_api_secret" ->                 \* 662-692
            IF ok THEN [base EXCEPT !.api_key = c.data_api_key, !.api_secret = text,
                                    !.reply = "keys_saved", !.state = "none",
                                    !.data_api_key = ""]
            ELSE [base EXCEPT !.reply = "save_failed", !.state = "none",
                              !.data_api_key = ""]
       [] h = "process_pairs_input" ->                \* 847-876
            IF ok THEN [base EXCEPT !.symbols = text, !.reply = "pairs_manual_saved",
                                    !.state = "none", !.data_api_key = ""]
            ELSE [base EXCEPT !.reply = "pairs_invalid_none", !.state = "none",
                              !.data_api_key = ""]
       [] h = "menu_support" ->                       \* 981-983
            [base EXCEPT !.reply = "support_prompt", !.state = "support_user"]
       [] h = "process_support_user" ->               \* 986-999
            IF ok THEN [base EXCEPT !.admin_inbox = @ \cup {text},
                                    !.reply = "support_sent", !.state = "none",
                                    !.data_api_key = ""]
            ELSE [base EXCEPT !.reply = "support_failed", !.state = "none",
                              !.data_api_key = ""]
       [] h = "process_admin_reply" ->                \* 1020-1039
            IF ok THEN [base EXCEPT !.user_inbox = @ \cup {text},
                                    !.reply = "reply_sent", !.state = "none",
                                    !.data_api_key = ""]
            ELSE [base EXCEPT !.reply = "support_failed", !.state = "none",
                              !.data_api_key = ""]
       [] h = "cmd_cancel" ->                         \* 1117-1119
            [base EXCEPT !.reply = "action_cancelled", !.state = "none",
                         !.data_api_key = ""]
       [] OTHER -> [base EXCEPT !.reply = ""]

ChatUnchanged ==
  UNCHANGED << store, ledger, orders, dryRun, clientOk, pc, users, ui, syms, si,
               ev, result, faultUser, persisted, nOpen, nClose, frames,
               fe, sup, res >>

\* the user sends a text message
ChatMessage ==
  /\ sig.phase = "chat"
  /\ sig.n < MaxUpdates
  /\ \E text \in ChatTexts, ok \in BOOLEAN :
       sig' = Handled(sig, Dispatch(text, sig.state), text, ok)
  /\ ChatUnchanged

\* the user presses an inline button: settings_api (649-653), pairs_input
\* (839-844), admin_reply (1002-1017, the admin only)
ChatCallback ==
  /\ sig.phase = "chat"
  /\ sig.n < MaxUpdates
  /\ \E cb \in {"settings_api", "pairs_input", "admin_reply"} :
       LET base == [sig EXCEPT !.n = @ + 1, !.kind = "callback", !.text = cb,
                               !.handler = cb]
       IN sig' = CASE cb = "settings_api" ->
                        [base EXCEPT !.reply = "enter_api_key", !.state = "api_key"]
                   [] cb = "pairs_input" ->
                        [base EXCEPT !.reply = "pairs_input_prompt",
                                     !.state = "pairs_input"]
                   [] cb = "admin_reply" ->
                        IF sig.is_admin
                        THEN [base EXCEPT !.reply = "enter_reply_prompt",
                                          !.state = "admin_reply"]
                        ELSE [base EXCEPT !.reply = "admin_only"]
  /\ ChatUnchanged

NextChat == ChatMessage \/ ChatCallback

SpecChat == InitChat /\ [][NextChat]_vars

\* ------------------------------------------------------ the invoice worker
\* tg_app.py:1216-1257  check_invoices_worker next to the engine: every 8
\* seconds it loads the users file and, for each user whose last_invoice_id
\* is reported paid, calls db.set_subscription and then
\* db.update_setting(uid, "last_invoice_id", None), each a load-change-save of
\* the whole file.
NoInvoice == "None"

\* a subscribed user with keys who asked for another invoice (cmd_buy,
\* tg_app.py:731-735), and a user without keys and without an invoice
InvoiceKinds ==
  { UserRec("future", "b64", "b64",
            [ RSI_OVERSOLD |-> 40, RSI_OVERBOUGHT |-> 60, ORDER_PERCENT |-> 10,
              ORDER_SIZE_USD |-> 0, symbols |-> <<"BTC/USDT">>,
              last_invoice_id |-> "inv" ], TRUE),
    UserRec("future", "", "", DefaultUserSettings, TRUE) }

\* tg_app.py:1230-1233  inv_id = settings.get("last_invoice_id"), falsy or not
PendingInvoice(u) ==
  /\ "last_invoice_id" \in DOMAIN u.settings
  /\ u.settings.last_invoice_id \notin {NoInvoice, ""}

WorkerIdle ==
  [ phase |-> "w_sleep", uid |-> 0, snap |-> << >>, polls |-> 0,
    paid |-> {}, credits |-> [u \in Users |-> 0] ]

InitInvoice ==
  /\ store \in [Users -> InvoiceKinds]
  /\ ledger = << >>
  /\ orders = << >>
  /\ dryRun = TRUE
  /\ clientOk = TRUE
  /\ pc = "sleep"
  /\ users = store
  /\ ui = 0
  /\ syms = << >>
  /\ si = 0
  /\ ev = EvNone
  /\ result = "none"
  /\ faultUser = 0
  /\ persisted = {}
  /\ nOpen = [k \in Keys |-> 0]
  /\ nClose = [k \in Keys |-> 0]
  /\ frames = 0
  /\ sig = SigNone
  /\ fe = WorkerIdle
  /\ sup = SupNone
  /\ res = ResNone

WorkerUnchanged ==
  UNCHANGED << ledger, orders, dryRun, clientOk, pc, users, ui, syms, si,
               ev, result, faultUser, persisted, nOpen, nClose, frames, sig,
               sup, res >>

\* the payment provider comes to report a user's invoice as paid
InvoicePaid ==
  /\ \E u \in Users :
       /\ PendingInvoice(store[u])
       /\ u \notin fe.paid
       /\ fe' = [fe EXCEPT !.paid = @ \cup {u}]
  /\ UNCHANGED store
  /\ WorkerUnchanged

\* tg_app.py:1224  users = db.load_users()
WorkerLoad ==
  /\ fe.phase = "w_sleep"
  /\ fe.polls < MaxPolls
  /\ fe' = [fe EXCEPT !.phase = "w_user", !.uid = 1, !.snap = store,
                      !.polls = @ + 1]
  /\ UNCHANGED store
  /\ WorkerUnchanged

\* the worker moves on to the next user of its snapshot, or sleeps (1257)
WorkerNext(w) ==
  IF w.uid < NUsers THEN [w EXCEPT !.phase = "w_user", !.uid = @ + 1]
  ELSE [w EXCEPT !.phase = "w_sleep", !.uid = 0, !.snap = << >>]

\* tg_app.py:1225-1242  one user of the snapshot: no invoice or not paid:
\* continue; paid: db.set_subscription(uid, days=30)
WorkerUser ==
  /\ fe.phase = "w_user"
  /\ IF PendingInvoice(fe.snap[fe.uid]) /\ fe.uid \in fe.paid
     THEN /\ store' = set_subscription(store, fe.uid)
          /\ fe' = [fe EXCEPT !.phase = "w_clear",
                              !.credits[fe.uid] = @ + 1]
     ELSE /\ UNCHANGED store
          /\ fe' = WorkerNext(fe)
  /\ WorkerUnchanged

\* tg_app.py:1243  db.update_setting(uid, "last_invoice_id", None)
WorkerClear ==
  /\ fe.phase = "w_clear"
  /\ store' = update_setting(store, fe.uid, "last_invoice_id", NoInvoice)
  /\ fe' = WorkerNext(fe)
  /\ WorkerUnchanged

NextInvoice ==
  \/ Load \/ UserBegin \/ FetchSkip \/ FetchOk \/ FrontEval \/ Persist
  \/ InvoicePaid \/ WorkerLoad \/ WorkerUser \/ WorkerClear

SpecInvoice == InitInvoice /\ [][NextInvoice]_vars

\* ------------------------------------------------- the engine process stops
\* main.py:59-69  run_trading_core starts trading_core.py again after the
\* process ended.  A process that is stopped inside an iteration (killed, host
\* down) loses what it held in memory: the records loaded at line 209 with the
\* position changes of lines 374 and 404 not yet persisted; the files keep
\* what was written.  The new process starts main_loop at its sleep.
CrashNone == [phase |-> "crash", crashes |-> 0]

InitCrash ==
  /\ store \in [Users -> FrontKinds]
  /\ ledger = << >>
  /\ orders = << >>
  /\ dryRun = TRUE
  /\ clientOk = TRUE
  /\ pc = "sleep"
  /\ users = store
  /\ ui = 0
  /\ syms = << >>
  /\ si = 0
  /\ ev = EvNone
  /\ result = "none"
  /\ faultUser = 0
  /\ persisted = {}
  /\ nOpen = [k \in Keys |-> 0]
  /\ nClose = [k \in Keys |-> 0]
  /\ frames = 0
  /\ sig = SigNone
  /\ fe = FeIdle
  /\ sup = CrashNone
  /\ res = ResNone

\* the process ends inside an iteration and main.py starts a new one
Crash ==
  /\ pc \in {"user", "symbol", "eval", "persist"}
  /\ sup.crashes < MaxCrashes
  /\ sup' = [sup EXCEPT !.crashes = @ + 1]
  /\ pc' = "sleep"
  /\ users' = store
  /\ ui' = 0
  /\ syms' = << >>
  /\ si' = 0
  /\ ev' = EvNone
  /\ result' = "none"
  /\ persisted' = {}
  /\ UNCHANGED << store, ledger, orders, dryRun, clientOk, faultUser,
                  nOpen, nClose, frames, sig, fe, res >>

NextCrash ==
  \/ Load \/ UserBegin \/ FetchSkip \/ FetchRaise \/ FetchOk \/ FrontEval \/ Persist
  \/ Crash

SpecCrash == InitCrash /\ [][NextCrash]_vars

\* ------------------------------------------------------------ the users file
\* db_json.py:23-52 and trading_core.py:413-416: the users file as a dict that
\* users can be missing from, read with _read (the default {} on any failure:
\* the file is rewritten in place by the other process, line 40) and written
\* with _write (a failure is printed and swallowed).  A record is its settings
\* version and its position, enough to tell records apart.
FileUsers == 1..3
FileRecs == [settings : 0..1, pos : {"None", "LONG"}]
NoUsers == [u \in {} |-> 0]

\* db_json.py:46-48  load_users
ReadUsers(file, read_ok) == IF read_ok THEN file ELSE NoUsers
\* db_json.py:50-52  save_users
WrittenUsers(file, data, write_ok) == IF write_ok THEN data ELSE file

\* users_all[str(uid)] = u
WithRecord(us, uid, rec) ==
  [ u \in (DOMAIN us) \cup {uid} |-> IF u = uid THEN rec ELSE us[u] ]

\* trading_core.py:414-416  users_all = db.load_users(); users_all[str(uid)]
\* = u; db.save_users(users_all)
\* (faulty variant: the iteration's own dict is written back)
PersistedUsersFromMemory(file, mem, uid, read_ok, write_ok) ==
  WrittenUsers(file, mem, write_ok)
PersistedUsers(file, mem, uid, read_ok, write_ok) ==
  WrittenUsers(file, WithRecord(ReadUsers(file, read_ok), uid, mem[uid]), write_ok)

InitFile ==
  /\ EngineParked
  /\ fe = FeIdle
  /\ sup = SupNone
  /\ sig = SigNone
  /\ \E first \in [{1, 2} -> {[settings |-> 0, pos |-> "None"]}] :
       res = [ phase |-> "file", file |-> first, mem |-> first, n |-> 0,
               op |-> "", uid |-> 0, before |-> first, read_ok |-> TRUE,
               write_ok |-> TRUE ]

FileUnchanged ==
  UNCHANGED << store, ledger, orders, dryRun, clientOk, pc, users, ui, syms, si,
               ev, result, faultUser, persisted, nOpen, nClose, frames,
               sig, fe, sup >>

\* trading_core.py:209  users = db.load_users() at the start of an iteration
FileLoad ==
  /\ res.phase = "file"
  /\ res.n < MaxFileOps
  /\ \E read_ok \in BOOLEAN :
       res' = [res EXCEPT !.mem = ReadUsers(res.file, read_ok), !.n = @ + 1,
                          !.op = "load", !.uid = 0, !.before = res.file,
                          !.read_ok = read_ok, !.write_ok = TRUE]
  /\ FileUnchanged

\* trading_core.py:374, 404  a position change in the loaded record
FilePosition ==
  /\ res.phase = "file"
  /\ res.n < MaxFileOps
  /\ \E uid \in DOMAIN res.mem :
       res' = [res EXCEPT !.mem[uid].pos = IF @ = "None" THEN "LONG" ELSE "None",
                          !.n = @ + 1, !.op = "position", !.uid = uid,
                          !.before = res.file,
                          !.read_ok = TRUE, !.write_ok = TRUE]
  /\ FileUnchanged

\* trading_core.py:413-416  the persist step of a user of the loaded dict
FilePersist ==
  /\ res.phase = "file"
  /\ res.n < MaxFileOps
  /\ \E uid \in DOMAIN res.mem, read_ok \in BOOLEAN, write_ok \in BOOLEAN :
       res' = [res EXCEPT !.file = PersistedUsers(res.file, res.mem, uid,
                                                  read_ok, write_ok),
                          !.n = @ + 1, !.op = "persist", !.uid = uid,
                          !.before = res.file,
                          !.read_ok = read_ok, !.write_ok = write_ok]
  /\ FileUnchanged

\* the front end during the iteration: db_json.py:57-75 create_default_user
\* for a new user, db_json.py:103-109 update_setting for a stored one
FileFront ==
  /\ res.phase = "file"
  /\ res.n < MaxFileOps
  /\ \E uid \in FileUsers :
       LET rec == IF uid \in DOMAIN res.file
                  THEN [res.file[uid] EXCEPT !.settings = 1 - @]
                  ELSE [settings |-> 0, pos |-> "None"]
       IN res' = [res EXCEPT !.file = WithRecord(res.file, uid, rec),
                             !.n = @ + 1, !.op = "front", !.uid = uid,
                             !.before = res.file,
                             !.read_ok = TRUE, !.write_ok = TRUE]
  /\ FileUnchanged

NextFile == FileLoad \/ FilePosition \/ FilePersist \/ FileFront

SpecFile == InitFile /\ [][NextFile]_vars

\* ------------------------------------------------- the db_json mutators
\* db_json.py:77-109  set_api_keys, set_subscription and update_setting as
\* whole calls on a users file that the user may be missing from.  A record is
\* [api_key, sub_until, setting], each as created or as changed by a call.
MutatorOps == {"set_api_keys", "set_subscription", "update_setting"}

\* db_json.py:60-73  the record create_default_user stores
DefaultRec == [api_key |-> "", sub_until |-> "None", setting |-> "default"]

\* db_json.py:82-83, 91, 108  the assignment of the call
ChangedRec(rec, op) ==
  CASE op = "set_api_keys"     -> [rec EXCEPT !.api_key = "enc"]
    [] op = "set_subscription" -> [rec EXCEPT !.sub_until = "now+days"]
    [] op = "update_setting"   -> [rec EXCEPT !.setting = "new"]

\* the call: users = load_users(); if uid not in users: create_default_user
\* (which loads, adds and saves its own dict); users[uid][...] = ... on the
\* dict loaded first (a KeyError when uid is not in it); save_users(users)
MutatorCall(file, uid, op) ==
  LET loaded == file
  IN IF uid \in DOMAIN loaded
     THEN [ file    |-> WithRecord(loaded, uid, ChangedRec(loaded[uid], op)),
            outcome |-> "returned" ]
     ELSE [ file    |-> WithRecord(file, uid, DefaultRec),
            outcome |-> "KeyError" ]

InitMutators ==
  /\ EngineParked
  /\ fe = FeIdle
  /\ sup = SupNone
  /\ sig = SigNone
  /\ \E known \in SUBSET {1, 2} :
       res = [ phase |-> "mut", file |-> [u \in known |-> DefaultRec], n |-> 0,
               op |-> "", uid |-> 0, was_known |-> FALSE, outcome |-> "" ]

\* tg_app.py:1105 (set_subscription from cmd_give_sub), 670, 721, 734, ...
MutatorStep ==
  /\ res.phase = "mut"
  /\ res.n < MaxCalls
  /\ \E uid \in FileUsers, op \in MutatorOps :
       LET r == MutatorCall(res.file, uid, op)
       IN res' = [res EXCEPT !.file = r.file, !.outcome = r.outcome,
                             !.n = @ + 1, !.op = op, !.uid = uid,
                             !.was_known = (uid \in DOMAIN res.file)]
  /\ FileUnchanged

NextMutators == MutatorStep

SpecMutators == InitMutators /\ [][NextMutators]_vars

\* ------------------------------------------------- conflicting conditions
\* trading_core.py:343-404 on snapshots and settings under which buy_ok and
\* sell_ok can hold together: a negative MACD_THRESHOLD, RSI_OVERSOLD above
\* RSI_OVERBOUGHT.
BothInputs ==
  [ rsi : { <<30>>, <<50>>, <<70>> }, ema_fast : {1, 2}, ema_slow : {1},
    macd : {-1, 0, 1},
    pos : {NoPos, LongPos(50, 200000), LongPos(50, 1)},
    price : {50}, bal : {100},
    MACD_THRESHOLD : {0, -2},
    RSI_OVERSOLD : {40, 60}, RSI_OVERBOUGHT : {40, 60} ]

BothSettings(inp) ==
  [ MergedSettings(DefaultUserSettings) EXCEPT
      !.MACD_THRESHOLD = inp.MACD_THRESHOLD,
      !.RSI_OVERSOLD = inp.RSI_OVERSOLD,
      !.RSI_OVERBOUGHT = inp.RSI_OVERBOUGHT ]

InitBoth ==
  /\ EngineParked
  /\ fe = FeIdle
  /\ sup = SupNone
  /\ res = ResNone
  /\ \E inp \in BothInputs : sig = [phase |-> "both_in", inp |-> inp]

BothEval ==
  /\ sig.phase = "both_in"
  /\ LET inp == sig.inp
         ms  == BothSettings(inp)
         loc == Locals(ms, inp)
         d   == Decide(1, BTC, inp.pos, loc.buy_ok, loc.sell_ok, loc.qty,
                       loc.price, ms.MIN_NOTIONAL, FALSE, "ok")
     IN sig' = [ phase |-> "both_out", inp |-> inp, ms |-> ms, loc |-> loc,
                 pos |-> d.pos, trades |-> d.trades ]
  /\ UNCHANGED << store, ledger, orders, dryRun, clientOk, pc, users, ui, syms, si,
                  ev, result, faultUser, persisted, nOpen, nClose, frames,
                  fe, sup, res >>

NextBoth == BothEval

SpecBoth == InitBoth /\ [][NextBoth]_vars

\* ------------------------------------------------- one key and its ledger
\* trading_core.py:352-404 with db_json.py:111-116: the evaluations of one
\* (user, symbol) over the iterations, the engine the only writer, each trade
\* appended with append_trade on the file as _read and _write leave it.
\* res.pos is the key's position, res.silent whether a position was cleared
\* without a SELL since the key's last BUY, res.io_ok whether every read and
\* write of the file has succeeded so far.
KeyInputs ==
  [ buy_ok : BOOLEAN, sell_ok : BOOLEAN, qty : {100000, 200000}, price : {1, 50} ]

InitKey ==
  /\ EngineParked
  /\ fe = FeIdle
  /\ sup = SupNone
  /\ sig = SigNone
  /\ res = [ phase |-> "key", pos |-> NoPos, silent |-> FALSE, io_ok |-> TRUE,
             n |-> 0 ]

KeyEval ==
  /\ res.phase = "key"
  /\ res.n < MaxEvals
  /\ \E inp \in KeyInputs, read_ok \in BOOLEAN, write_ok \in BOOLEAN :
       LET d == Decide(1, BTC, res.pos, inp.buy_ok, inp.sell_ok, inp.qty,
                       inp.price, DEFAULTS.MIN_NOTIONAL, FALSE, "ok")
           appends == d.trades # << >>
           cleared == (~IsNone(res.pos)) /\ IsNone(d.pos) /\ ~appends
       IN /\ (~appends) => (read_ok /\ write_ok)
          /\ ledger' = IF appends
                       THEN WrittenTrades(ledger,
                                          ReadTrades(ledger, read_ok) \o d.trades,
                                          write_ok)
                       ELSE ledger
          /\ res' = [res EXCEPT !.pos = d.pos, !.n = @ + 1,
                                !.io_ok = @ /\ read_ok /\ write_ok,
                                !.silent = IF appends THEN FALSE
                                           ELSE (@ \/ cleared)]
  /\ UNCHANGED << store, orders, dryRun, clientOk, pc, users, ui, syms, si,
                  ev, result, faultUser, persisted, nOpen, nClose, frames, sig,
                  fe, sup >>

NextKey == KeyEval

SpecKey == InitKey /\ [][NextKey]_vars

\* ------------------------------------------------------- stored credentials
\* tg_app.py:333-338 encrypt and trading_core.py:237-245: a key typed by the
\* user, stored by the front end, decoded by the engine.  A text is its
\* sequence of bytes (ASCII here); a stored string is the alphabet it is
\* written in and the bytes it encodes.
KeyTexts == UNION { [1..n -> {65, 66}] : n \in 1..MaxKeyLen }

\* the bytes of a Fernet token: the version byte 0x80, then timestamp, IV,
\* ciphertext and HMAC, here one byte per plaintext byte, none of them
\* the plaintext
FernetBytes(text) == << 128 >> \o [i \in 1..Len(text) |-> 255 - text[i]]

\* tg_app.py:333-338  encrypt
encrypt(text, have_crypto) ==
  IF text = << >> THEN [alphabet |-> "", bytes |-> << >>]
  ELSE IF have_crypto THEN [alphabet |-> "urlsafe", bytes |-> FernetBytes(text)]
  ELSE [alphabet |-> "standard", bytes |-> text]

\* bytes.decode(): UTF-8, which no text starting with the byte 0x80 is
Utf8Decode(bytes) ==
  IF \E i \in DOMAIN bytes : bytes[i] >= 128
  THEN [ok |-> FALSE, text |-> << >>]
  ELSE [ok |-> TRUE, text |-> bytes]

\* trading_core.py:237-242  db_json has no decode_key, so the stored string
\* is base64-decoded (characters outside the standard alphabet are dropped,
\* the leading bytes are the token's) and the bytes are decoded as text; any
\* exception gives ""
EngineDecode(enc) ==
  IF Utf8Decode(enc.bytes).ok THEN Utf8Decode(enc.bytes).text ELSE << >>

InitCred ==
  /\ EngineParked
  /\ fe = FeIdle
  /\ sup = SupNone
  /\ res = ResNone
  /\ \E key \in KeyTexts, secret \in KeyTexts, have_crypto \in BOOLEAN,
        sub \in {"future", "past"} :
       sig = [ phase |-> "cred_in", key |-> key, secret |-> secret,
               have_crypto |-> have_crypto, sub_until |-> sub ]

CredUnchanged ==
  UNCHANGED << store, ledger, orders, dryRun, clientOk, pc, users, ui, syms, si,
               ev, result, faultUser, persisted, nOpen, nClose, frames,
               fe, sup, res >>

\* tg_app.py:661-670  process_api_secret: encrypt both and db.set_api_keys
CredSave ==
  /\ sig.phase = "cred_in"
  /\ sig' = [ sig EXCEPT !.phase = "cred_stored" ]
            @@ [ api_key |-> encrypt(sig.key, sig.have_crypto),
                 api_secret |-> encrypt(sig.secret, sig.have_crypto) ]
  /\ CredUnchanged

\* trading_core.py:220-245  the engine's checks on the stored record
CredEngine ==
  /\ sig.phase = "cred_stored"
  /\ LET api_key == EngineDecode(sig.api_key)
         api_secret == EngineDecode(sig.api_secret)
     IN sig' = [ sig EXCEPT !.phase = "cred_seen" ]
               @@ [ dec_key |-> api_key, dec_secret |-> api_secret,
                    eligible |-> /\ sig.sub_until = "future"
                                 /\ sig.api_key.bytes # << >>
                                 /\ sig.api_secret.bytes # << >>
                                 /\ api_key # << >> /\ api_secret # << >> ]
  /\ CredUnchanged

NextCred == CredSave \/ CredEngine

SpecCred == InitCred /\ [][NextCred]_vars

\* -------------------------------------------------------- the trades worker
\* tg_app.py:1174-1214  trades_worker next to append_trade (db_json.py:
\* 111-116).  A ledger record is its number in the order of the append_trade
\* calls (0: a record that was in the file before the worker started);
\* res.handled lists the records the worker's for loop has gone through.
TradeRec(id) == [id |-> id]

\* tg_app.py:1175-1182  last_index = len(arr), or 0 when the file cannot be read
InitTrades ==
  /\ EngineParked
  /\ fe = FeIdle
  /\ sup = SupNone
  /\ sig = SigNone
  /\ \E old \in { << >>, << TradeRec(0) >> }, read_ok \in BOOLEAN :
       LET arr == ReadTrades(old, read_ok)
       IN res = [ phase |-> "tw", file |-> old, last_index |-> Len(arr),
                  handled |-> << >>, appended |-> 0, polls |-> 0,
                  op |-> "start", io_ok |-> TRUE ]

\* db_json.py:111-116  append_trade by the engine
TradesAppend ==
  /\ res.phase = "tw"
  /\ res.appended < MaxAppends
  /\ \E read_ok \in BOOLEAN, write_ok \in BOOLEAN :
       LET trade == TradeRec(res.appended + 1)
           trades == Append(ReadTrades(res.file, read_ok), trade)
       IN res' = [res EXCEPT !.file = WrittenTrades(res.file, trades, write_ok),
                             !.appended = @ + 1, !.op = "append",
                             !.io_ok = @ /\ read_ok /\ write_ok]
  /\ FileUnchanged

\* tg_app.py:1189-1213  one round of the while loop: a failed read is logged
\* and the round ends; else the records from last_index on are gone through
\* in order and last_index becomes the length read
TradesPoll ==
  /\ res.phase = "tw"
  /\ res.polls < MaxPolls
  /\ \E read_ok \in BOOLEAN :
       IF ~read_ok
       THEN res' = [res EXCEPT !.polls = @ + 1, !.op = "poll_failed"]
       ELSE LET trades == res.file
            IN IF Len(trades) > res.last_index
               THEN res' = [res EXCEPT
                              !.handled = @ \o SubSeq(trades, res.last_index + 1,
                                                      Len(trades)),
                              !.last_index = Len(trades),
                              !.polls = @ + 1, !.op = "poll"]
               ELSE res' = [res EXCEPT !.polls = @ + 1, !.op = "poll"]
  /\ FileUnchanged

NextTrades == TradesAppend \/ TradesPoll

SpecTrades == InitTrades /\ [][NextTrades]_vars

\* ================================================================== claims
\* what the last evaluation left behind, read from the state
EvDone == ev.outcome = "done"
EvKeyPos == users[ev.uid]._positions[ev.symbol]
EvTrades == SubSeq(ledger, ev.ledger0 + 1, Len(ledger))
EvOrders == SubSeq(orders, ev.orders0 + 1, Len(orders))
EvOpenCond ==
  ev.buy_ok /\ ev.qty > 0 /\ ev.qty * ev.price >= ev.min_notional * QUnit
EvCloseNotional == ev.pos.qty * ev.price >= ev.min_notional * QUnit
KeyTrades(k, side) ==
  SelectSeq(ledger, LAMBDA t : t.user_id = k[1] /\ t.symbol = k[2] /\ t.side = side)

\* C1: for a key with no stored position, an evaluation takes it from FLAT to
\* LONG if and only if buy_ok holds, the floored quantity is > 0 and
\* quantity * price >= MIN_NOTIONAL; the position stored is then LONG at the
\* current price with the floored quantity; otherwise the position stays absent
\* and no trade is appended.
C1_OpenIffSizedSignal ==
  (EvDone /\ IsNone(ev.pos)) =>
    /\ (~IsNone(EvKeyPos)) <=> EvOpenCond
    /\ EvOpenCond => EvKeyPos = LongPos(ev.price, ev.qty)
    /\ (~EvOpenCond) => (EvKeyPos = NoPos /\ EvTrades = << >>)

\* C1 witness: a buy_ok evaluation of a FLAT key whose notional is below the
\* minimum was suppressed after an OPEN had happened on another evaluation
C1_Witness ==
  /\ EvDone /\ IsNone(ev.pos) /\ ev.buy_ok /\ ev.qty > 0
  /\ ev.qty * ev.price < ev.min_notional * QUnit
  /\ IsNone(EvKeyPos)
  /\ \E k \in Keys : nOpen[k] = 1

\* C2: for a LONG key, when sell_ok holds and stored_qty * price >= MIN_NOTIONAL
\* exactly one SELL trade is appended, at the current price and for the stored
\* quantity (not the quantity sized in this cycle), and the position is absent.
C2_LoudClose ==
  (EvDone /\ (~IsNone(ev.pos)) /\ ev.sell_ok /\ EvCloseNotional) =>
    /\ Len(EvTrades) = 1
    /\ EvTrades[1].side = "SELL"
    /\ EvTrades[1].user_id = ev.uid /\ EvTrades[1].symbol = ev.symbol
    /\ EvTrades[1].price = ev.price
    /\ EvTrades[1].qty = ev.pos.qty
    /\ EvKeyPos = NoPos

\* C2 witness: a LONG opened at 50 is closed at 10 for its stored quantity while
\* the cycle sized a different, positive quantity
C2_Witness ==
  /\ EvDone /\ (~IsNone(ev.pos)) /\ ev.sell_ok /\ EvCloseNotional
  /\ ev.qty > 0 /\ ev.qty # ev.pos.qty /\ ev.price # ev.pos.entry_price
  /\ Len(EvTrades) = 1 /\ EvTrades[1].qty = ev.pos.qty

\* C3: for a LONG key, when sell_ok holds and stored_qty * price is below
\* MIN_NOTIONAL the position is cleared, no trade is appended and no order placed.
C3_SilentClear ==
  (EvDone /\ (~IsNone(ev.pos)) /\ ev.sell_ok /\ ~EvCloseNotional) =>
    /\ EvKeyPos = NoPos
    /\ EvTrades = << >>
    /\ EvOrders = << >>

\* C3 witness: with orders really being placed, a LONG of positive quantity was
\* cleared below the minimum notional
C3_Witness ==
  /\ EvDone /\ (~IsNone(ev.pos)) /\ ev.sell_ok /\ ~EvCloseNotional
  /\ ev.pos.qty > 0 /\ (~dryRun) /\ clientOk
  /\ Len(orders) > 0 /\ EvKeyPos = NoPos

\* C4: an evaluation that is none of the three transitions (an OPEN verdict on a
\* LONG key, a CLOSE verdict on a FLAT key, neither verdict, a suppressed OPEN)
\* leaves the key's position, the ledger and the exchange unchanged.
C4_OtherwiseNoOp ==
  (EvDone /\ ~(IsNone(ev.pos) /\ EvOpenCond) /\ ~((~IsNone(ev.pos)) /\ ev.sell_ok)) =>
    /\ EvKeyPos = ev.pos
    /\ EvTrades = << >>
    /\ EvOrders = << >>

\* C4 witness: an OPEN verdict with a tradable quantity on a key that is LONG
C4_Witness ==
  /\ EvDone /\ (~IsNone(ev.pos)) /\ ev.buy_ok /\ EvOpenCond /\ ~ev.sell_ok
  /\ EvKeyPos = ev.pos /\ (~dryRun) /\ clientOk

C9_SymbolFaultIsolated ==
  /\ (ev.outcome = "raised" \/ (ev.outcome = "skipped" /\ ev.fetch = "raises")) =>
       /\ result = "none"
       /\ ui = ev.uid
       /\ IF ev.idx < Len(syms)
          THEN pc = "symbol" /\ si = ev.idx + 1
          ELSE pc = "persist"
  /\ (faultUser # 0 /\ ui > faultUser) => faultUser \in persisted
  /\ (faultUser # 0 /\ result = "returned") =>
       \A u \in Users : Eligible(users[u]) => u \in persisted

\* C9 witness: the first symbol of user 1 raised, and a symbol of user 2 was
\* evaluated afterwards in the same iteration
C9_Witness ==
  /\ faultUser = 1 /\ 1 \in persisted
  /\ EvDone /\ ev.uid = 2 /\ result = "none"

\* C10: no fault raised while processing a user propagates out of
\* run_trading_iteration: every iteration returns, and every eligible user of
\* the loaded file has been processed when it ends.
C10_NoUserFaultPropagates ==
  (pc = "sleep" /\ result # "none") =>
    /\ result = "returned"
    /\ \A u \in Users : Eligible(users[u]) => u \in persisted

\* the snapshot of the signal evaluation, read without the engine's operators
SigOut == sig.phase = "out"
SigWindow ==
  { i \in 1..Len(sig.inp.rsi) : i > Len(sig.inp.rsi) - sig.inp.n }
SigWindowFull == sig.inp.n <= Len(sig.inp.rsi)
SigAllBelow ==
  SigWindowFull /\ \A i \in SigWindow :
    sig.inp.rsi[i] # NaN /\ sig.inp.rsi[i] < sig.ms.RSI_OVERSOLD
SigAllAbove ==
  SigWindowFull /\ \A i \in SigWindow :
    sig.inp.rsi[i] # NaN /\ sig.inp.rsi[i] > sig.ms.RSI_OVERBOUGHT
SigTrendUp ==
  sig.inp.ema_fast # NaN /\ sig.inp.ema_slow # NaN /\ sig.inp.ema_fast > sig.inp.ema_slow
SigMacdAbove == sig.inp.macd # NaN /\ sig.inp.macd > sig.ms.MACD_THRESHOLD
SigMacdBelow == sig.inp.macd # NaN /\ sig.inp.macd < -sig.ms.MACD_THRESHOLD
SigFewValid ==
  (~SigWindowFull) \/ \E i \in SigWindow : sig.inp.rsi[i] = NaN
SigLong == ~IsNone(sig.inp.pos)

\* C6: buy_ok is true exactly when every one of the last RSI_CONFIRM readings
\* is strictly below RSI_OVERSOLD, trend_up is true and macd_hist is strictly
\* above MACD_THRESHOLD; one reading of the window at or above the oversold
\* threshold makes it false.
C6_BuyOkIsConjunction ==
  SigOut =>
    /\ sig.loc.buy_ok <=> (SigAllBelow /\ SigTrendUp /\ SigMacdAbove)
    /\ (\E i \in SigWindow : sig.inp.rsi[i] # NaN
                             /\ sig.inp.rsi[i] >= sig.ms.RSI_OVERSOLD)
         => ~sig.loc.buy_ok

\* C6 witness: a window of two readings, both below the threshold, with the
\* trend up and the histogram above the threshold, gives buy_ok
C6_Witness ==
  /\ SigOut /\ sig.inp.n = 2 /\ Len(sig.inp.rsi) = 2
  /\ sig.loc.buy_ok /\ sig.pos = LongPos(50, 200000) /\ ~SigLong

\* C7: sell_ok is true exactly when every one of the last RSI_CONFIRM readings
\* is strictly above RSI_OVERBOUGHT, or trend_up is false, or macd_hist is
\* strictly below -MACD_THRESHOLD; each of them alone closes a LONG position.
C7_SellOkIsDisjunction ==
  SigOut =>
    /\ sig.loc.sell_ok <=> (SigAllAbove \/ (~SigTrendUp) \/ SigMacdBelow)
    /\ (SigLong /\ (SigAllAbove \/ (~SigTrendUp) \/ SigMacdBelow))
         => sig.pos = NoPos

\* C7 witness: a LONG position closed on the histogram alone, with the trend up
\* and the RSI not above the overbought threshold
C7_Witness ==
  /\ SigOut /\ SigLong /\ SigMacdBelow /\ SigTrendUp /\ ~SigAllAbove
  /\ sig.pos = NoPos /\ Len(sig.trades) = 1

\* C8 as stated: with fewer than RSI_CONFIRM valid RSI readings at the end of
\* the series both confirmations are false and no trade is made, whatever the
\* position state.
C8_FewReadingsNoTrade ==
  (SigOut /\ SigFewValid) =>
    /\ ~sig.loc.rsi_confirm_buy
    /\ ~sig.loc.rsi_confirm_sell
    /\ sig.trades = << >>

\* C8 amended: with fewer than RSI_CONFIRM valid RSI readings at the end of the
\* series both confirmations are false and no BUY is made: a FLAT key is left
\* alone, and a LONG position is closed exactly when trend_up is false or
\* macd_hist is below -MACD_THRESHOLD.
C8_FewReadingsNoBuy ==
  (SigOut /\ SigFewValid) =>
    /\ ~sig.loc.rsi_confirm_buy
    /\ ~sig.loc.rsi_confirm_sell
    /\ ~sig.loc.buy_ok
    /\ \A i \in 1..Len(sig.trades) : sig.trades[i].side # "BUY"
    /\ (~SigLong) => (sig.pos = NoPos /\ sig.trades = << >>)
    /\ SigLong =>
         IF (~SigTrendUp) \/ SigMacdBelow
         THEN sig.pos = NoPos
         ELSE sig.pos = sig.inp.pos /\ sig.trades = << >>

\* C8 witness: a missing reading in the window, a LONG position, the trend
\* down: the position is closed with a SELL
C8_Witness ==
  /\ SigOut /\ SigFewValid /\ SigWindowFull /\ SigLong /\ ~SigTrendUp
  /\ sig.pos = NoPos /\ Len(sig.trades) = 1 /\ sig.trades[1].side = "SELL"

\* C11: the persist step writes the user's in-memory record, that is the
\* snapshot loaded at the start of the iteration with its position map, over
\* whatever the store holds for the user at that moment: a change the front
\* end saved since the load is overwritten.
C11_PersistOverwritesRecord ==
  [][(pc = "persist" /\ pc' # "persist") =>
       store'[ui] = users[ui]]_vars

\* C11 witness: the front end has switched a user's trading off (settings.active
\* = False), and after the user's persist step the stored record has no such
\* setting any more
C11_Witness ==
  \E u \in Users :
    /\ <<u, "active">> \in fe.done
    /\ u \in persisted
    /\ "active" \notin DOMAIN store[u].settings
    /\ store[u] = users[u]

SupOn == sup.phase = "on"
SupRunning == { p \in ProcIds : sup.procs[p].st = "run" }
SupAlive == { p \in ProcIds : sup.procs[p].st \in {"sleep", "run"} }

\* C12: at any time at most one unit of work (user, symbol) is executing: at
\* most one engine process is alive, at most one iteration is in progress, and
\* no two iterations are at a unit at the same time.
C12_OneUnitAtATime ==
  SupOn =>
    /\ Cardinality(SupAlive) <= 1
    /\ Cardinality(SupRunning) <= 1
    /\ \A p, q \in SupRunning : p = q

\* a restarted process executes a unit after its predecessor ended within an
\* iteration
C12_Witness ==
  /\ SupOn
  /\ sup.procs[1].st = "dead"
  /\ sup.procs[2].st = "run"
  /\ sup.procs[2].at = 2
  /\ sup.procs[2].last = "raised"

\* C13: when the order of a BUY or SELL fails (place_order raises or returns an
\* error payload) the trade is still appended, with the error payload as its
\* order response, and the position moves as it does for a successful order.
C13_FailedOrderStillTrades ==
  (EvDone /\ ev.place \in {"error", "raises"}) =>
    /\ Len(EvOrders) = 1
    /\ Len(EvTrades) = 1
    /\ EvTrades[1].order_resp = "error"
    /\ EvTrades[1].side = (IF IsNone(ev.pos) THEN "BUY" ELSE "SELL")
    /\ IF IsNone(ev.pos) THEN EvKeyPos = LongPos(ev.price, ev.qty)
                         ELSE IsNone(EvKeyPos)

\* a SELL whose place_order raised: the position is gone, after a BUY whose
\* order was answered with an error payload
C13_Witness ==
  /\ EvDone /\ ev.place = "raises" /\ ~IsNone(ev.pos) /\ IsNone(EvKeyPos)
  /\ Len(ledger) = 2
  /\ ledger[1].order_resp = "error" /\ ledger[1].side = "BUY"
  /\ ledger[2].order_resp = "error" /\ ledger[2].side = "SELL"

C15_BalanceFailureSkipsTrading ==
  (EvDone /\ ev.bal = BalNone) =>
    /\ EvTrades = << >>
    /\ EvOrders = << >>
    /\ EvKeyPos = ev.pos

\* the claim's condition on a record: the subscription date is not in the past,
\* key and secret are present and decode to non-empty strings
SubscribedWithKeys(u) ==
  /\ u.sub_until \in {"future", "renewed"}
  /\ u.api_key # "" /\ DecodeKey(u.api_key) # ""
  /\ u.api_secret # "" /\ DecodeKey(u.api_secret) # ""

\* C16: the symbol loop is entered only for a user whose subscription is not in
\* the past and whose key and secret are usable; the step of the iteration that
\* finds any other user appends no trade, places no order, changes no position
\* and writes no record, and goes on to the next user.
C16_OnlyEligibleProcessed ==
  [][ /\ (pc = "user" /\ pc' = "symbol") => SubscribedWithKeys(users[ui])
      /\ (pc = "user" /\ ~SubscribedWithKeys(users[ui]) /\ <<pc, ui>>' # <<pc, ui>>) =>
           /\ ledger' = ledger /\ orders' = orders
           /\ store' = store /\ users' = users
           /\ persisted' = persisted
           /\ pc' \in {"user", "sleep"} ]_vars

\* the first user holds a LONG position in the store, its subscription has
\* lapsed, and the running iteration has passed it without writing anything
C16_Witness ==
  /\ pc = "user" /\ ui = 2 /\ persisted = {}
  /\ store[1].sub_until = "past"
  /\ ~IsNone(store[1]._positions[BTC])
  /\ users[1]._positions = store[1]._positions
  /\ ledger # << >>

\* the fetch handed back nothing, an empty frame or a frame without "close"
\* (line 289's one test), or the raw response dict (no close column either)
EvNoCandles ==
  \/ ev.outcome = "skipped" /\ ev.fetch = "nodata"
  \/ ev.outcome = "raised" /\ ev.fetch = "rawdict"

C18_EligibleWrittenOncePerIteration ==
  /\ (pc = "sleep" /\ result # "none") =>
       \A u \in Users : Eligible(users[u]) => u \in persisted
  /\ (pc \in {"symbol", "eval", "persist"}) => ui \notin persisted
  /\ \A u \in persisted : store[u]._positions = users[u]._positions

IterationBegun == pc = "user" /\ ui = 1

\* C19: the scheduler never stops on its own: whenever main_loop is between
\* iterations, after an iteration that returned as after one that raised, a new
\* iteration eventually begins, and it is between iterations again and again.
C19_SchedulerNeverStops ==
  /\ [](pc = "sleep" => <>IterationBegun)
  /\ []<>(pc = "sleep" /\ result # "none")

\* an iteration begins after an earlier one raised at the second user, having
\* traded for the first
C19_Witness ==
  /\ IterationBegun
  /\ ~store[2].wellformed
  /\ ledger # << >>

ResOut == res.phase = "out"
Range(seq) == { seq[i] : i \in DOMAIN seq }
ResValidated == Range(res.normalized) \cap res.ok

\* C20: when at least one symbol of the normalized list validates, the symbols
\* processed are exactly the validated ones; when none validates, the whole
\* normalized list is processed; the working list is never empty.
C20_ValidatedElseNormalized ==
  ResOut =>
    /\ ResValidated # {} => Range(res.syms_to_use) = ResValidated
    /\ ResValidated = {} => res.syms_to_use = res.normalized
    /\ res.syms_to_use # << >>

\* two different symbols stored, one of them confirmed: only that one is kept
C20_Witness ==
  /\ ResOut
  /\ res.raw = <<"BTC/USDT", "eth/usdt">>
  /\ res.ok = {ETH}
  /\ res.normalized = <<BTC, ETH>>
  /\ res.syms_to_use = <<ETH>>

SizeOut == sig.phase = "size_out"
\* the notional the claim states, in cents
SizeNotionalCents ==
  LET cfg == sig.inp.ORDER_SIZE_USD
      bal == sig.inp.bal
  IN IF cfg > 0
     THEN (IF bal # BalNone /\ bal > 0 THEN Min(cfg, bal) ELSE cfg) * 100
     ELSE (IF bal # BalNone /\ bal > 0 THEN bal * sig.inp.ORDER_PERCENT ELSE 0)

C23_BuyWithinBalance ==
  (SizeOut /\ sig.inp.bal # BalNone /\ sig.inp.bal > 0) =>
    \A i \in DOMAIN sig.trades :
      sig.trades[i].side = "BUY" =>
        sig.trades[i].qty * sig.trades[i].price <= sig.inp.bal * QUnit

\* C22: floor_qty never rounds up: its result never exceeds its argument, and
\* it is 0 for an argument that is not positive.
C22_FloorNeverExceeds ==
  sig.phase = "fl_out" =>
    /\ ~FloatGreater(sig.out, sig.inp.q)
    /\ sig.inp.q[1] <= 0 => sig.out = FloatZero

\* C24: the ledger is append-only: after any sequence of append_trade calls,
\* failed reads and writes of the file included, it holds every record appended
\* so far, unmodified and in the order of the calls, the newest last.
C24_LedgerAppendOnly ==
  res.phase = "log" => ledger = res.appended

\* C25: without an exchange client (client.py not importable, or BybitClient
\* cannot be constructed) every iteration completes without raising, no trade is
\* appended, no order is placed and no position changes, for any user.
C25_NoClientNoTrading ==
  (~clientOk) =>
    /\ result # "raised"
    /\ ledger = << >>
    /\ orders = << >>
    /\ \A u \in Users, s \in Symbols :
         IsNone(users[u]._positions[s]) /\ IsNone(store[u]._positions[s])

RsiOut == sig.phase = "rsi_out"
\* the closes of the window ending at position t rise strictly, and the window
\* has its rsi_period changes
RsiWindowRises(t) ==
  /\ t - sig.n >= 1
  /\ \A i \in (t - sig.n + 1)..t : sig.close[i] > sig.close[i - 1]
RsiIsHundred(v) == v.k = "num" /\ v.n = 100 * v.d

\* C27: where the closes of a full window rise strictly (the average loss is
\* 0) the RSI of a strictly increasing series is exactly 100, a number and not
\* NaN or an infinity, from the library as from the fallback of
\* rsi_series_custom.
C27_RisingSeriesRsiIsHundred ==
  RsiOut =>
    \A t \in 1..Len(sig.close) :
      (RsiWindowRises(t) /\ \A i \in 2..t : sig.close[i] > sig.close[i - 1])
        => RsiIsHundred(sig.rsi_s[t])

\* the fallback on 1, 2, 3 with period 2: NaN, NaN, 100
C27_Witness ==
  /\ RsiOut /\ sig.ta_raises
  /\ sig.close = <<1, 2, 3>> /\ sig.n = 2
  /\ sig.rsi_s[2].k = "nan"
  /\ sig.rsi_s[3] = RsiNum(100, 1)

\* the record the iteration holds for the user it is at says trading is
\* switched off
BotOff(u) ==
  /\ "active" \in DOMAIN users[u].settings
  /\ users[u].settings.active = FALSE

\* C28: once the front end has switched a user's bot off (settings.active =
\* False in the record the iteration loaded), no step of the engine opens or
\* closes a position, writes a trade or places an order for that user.
C28_NoTradingWhileOff ==
  [][ (ui \in Users /\ BotOff(ui)) =>
        /\ ledger' = ledger
        /\ orders' = orders
        /\ users'[ui]._positions = users[ui]._positions ]_vars

\* the step is the delivery of the message /cancel while the user is in an
\* input state
CancelSentInState ==
  /\ sig.phase = "chat"
  /\ sig.state \in FormStates
  /\ sig'.n = sig.n + 1
  /\ sig'.kind = "message"
  /\ sig'.text = "/cancel"

\* C29: /cancel sent in any input state clears the state and is answered with
\* 'Action cancelled'; its text is not taken by the state's handler: it is not
\* kept as an API key or secret, not saved as a pair, not forwarded to the
\* admin and not sent on as an admin reply.
C29_CancelLeavesInputState ==
  [][ CancelSentInState =>
        /\ sig'.state = "none"
        /\ sig'.reply = "action_cancelled"
        /\ sig'.data_api_key = ""
        /\ sig'.api_key = sig.api_key /\ sig'.api_secret = sig.api_secret
        /\ sig'.symbols = sig.symbols
        /\ sig'.admin_inbox = sig.admin_inbox
        /\ sig'.user_inbox = sig.user_inbox ]_vars

\* C30: a paid invoice is credited exactly once: after check_invoices_worker
\* has activated the subscription for a user's invoice and cleared
\* last_invoice_id, no later poll activates it again for that invoice, also
\* while the engine writes user records.
C30_InvoiceCreditedOnce ==
  fe.phase \in {"w_sleep", "w_user", "w_clear"} =>
    \A u \in Users : fe.credits[u] <= 1

\* the trades of one (user, symbol), in ledger order
KeyLedger(k) ==
  SelectSeq(ledger, LAMBDA t : t.user_id = k[1] /\ t.symbol = k[2])
Alternating(ks) == \A i \in 1..(Len(ks) - 1) : ks[i].side # ks[i + 1].side

\* C31: with the front end writing the users file next to the engine, a
\* position change the engine persisted is never reverted: the ledger of a key
\* never holds two BUYs without a close between them, nor two SELLs for one
\* BUY (the front-end runs have no silent clear: one price, one quantity).
C31_FrontWritesKeepPositions ==
  \A k \in Keys : Alternating(KeyLedger(k))

\* the key's last ledger trade is a BUY (no SELL after it)
OpenInLedger(k) ==
  LET ks == KeyLedger(k) IN Len(ks) > 0 /\ ks[Len(ks)].side = "BUY"

\* C32: whenever the engine process is at the start of its loop, also after it
\* was stopped between a trade's append and the user's persist step and
\* started again, the stored position of every (user, symbol) is LONG exactly
\* when the key's last ledger trade is a BUY (these runs have no silent clear).
C32_StoredPositionMatchesLedger ==
  (sup.phase = "crash" /\ pc = "sleep") =>
    \A k \in Keys :
      (~IsNone(store[k[1]]._positions[k[2]])) <=> OpenInLedger(k)

FilePersisted == res.phase = "file" /\ res.op = "persist"
\* every record but uid's is in the file as it was before the step
OthersKept(uid) ==
  \A u \in (DOMAIN res.before) \ {uid} :
    u \in DOMAIN res.file /\ res.file[u] = res.before[u]

\* C33: the persist step of user X leaves every other user's record in the
\* store present and unchanged, the users the front end created or changed
\* during the iteration included, also when the re-read of the users file
\* fails and yields the empty default.
C33_PersistKeepsOtherUsers ==
  FilePersisted => OthersKept(res.uid)

\* C33, with the re-read succeeding: the persist step leaves every other
\* user's record present and unchanged, the users the front end created or
\* changed since the iteration's load included.
C33_PersistKeepsOthersWhenRead ==
  (FilePersisted /\ res.read_ok) => OthersKept(res.uid)

\* C33 witness: the front end created user 3 after the iteration's load; the
\* persist of user 1, re-read and write succeeding, stored user 1's new
\* position and kept user 3
C33_Witness ==
  /\ FilePersisted /\ res.read_ok /\ res.write_ok /\ res.uid = 1
  /\ 3 \in DOMAIN res.before /\ 3 \notin DOMAIN res.mem
  /\ 3 \in DOMAIN res.file
  /\ res.file[1].pos = "LONG" /\ res.before[1].pos = "None"

\* the last call was made for a user the store did not hold
CalledForNewUser == res.phase = "mut" /\ res.n > 0 /\ ~res.was_known

\* the stored record of the call's user carries the change the call asked for
ChangeStored ==
  /\ res.uid \in DOMAIN res.file
  /\ CASE res.op = "set_api_keys"     -> res.file[res.uid].api_key = "enc"
       [] res.op = "set_subscription" -> res.file[res.uid].sub_until = "now+days"
       [] res.op = "update_setting"   -> res.file[res.uid].setting = "new"
       [] OTHER -> FALSE

\* C34: update_setting, set_api_keys and set_subscription called for a user
\* who is not in the store create the default record and apply the change in
\* the same call: the call returns normally and the store then holds the user
\* with the new setting, keys or expiry.
C34_MutatorCreatesAndApplies ==
  CalledForNewUser => (res.outcome = "returned" /\ ChangeStored)

NoDuplicates(seq) == \A i, j \in DOMAIN seq : seq[i] = seq[j] => i = j

\* C35: the list of symbols processed for a user holds no normalized symbol
\* twice, when some symbols validated as when the engine falls back to the
\* unvalidated list, so that within one iteration each (user, symbol) is
\* evaluated at most once.
C35_NoSymbolTwice ==
  ResOut => NoDuplicates(res.syms_to_use)

BothOut == sig.phase = "both_out"
\* the OPEN condition (signal, quantity, notional) and the CLOSE condition of
\* the evaluation
BothOpenCond ==
  sig.loc.buy_ok /\ sig.loc.qty > 0
  /\ sig.loc.qty * sig.loc.price >= sig.ms.MIN_NOTIONAL * QUnit
BothCloseCond == sig.loc.sell_ok

\* C36: one evaluation of a (user, symbol) appends at most one trade and makes
\* at most one transition; when the OPEN and the CLOSE conditions hold
\* together, a FLAT key is opened and not closed (one BUY, position LONG) and a
\* LONG key is closed and not reopened (no BUY, position cleared).
C36_OneTransitionPerEvaluation ==
  BothOut =>
    /\ Len(sig.trades) <= 1
    /\ (BothOpenCond /\ BothCloseCond /\ IsNone(sig.inp.pos)) =>
         /\ sig.pos = LongPos(sig.loc.price, sig.loc.qty)
         /\ Len(sig.trades) = 1 /\ sig.trades[1].side = "BUY"
    /\ (BothOpenCond /\ BothCloseCond /\ ~IsNone(sig.inp.pos)) =>
         /\ IsNone(sig.pos)
         /\ \A i \in DOMAIN sig.trades : sig.trades[i].side = "SELL"

\* C36 witness: with MACD_THRESHOLD = -2 both conditions hold on one
\* snapshot; the FLAT key is opened and stays LONG
C36_Witness ==
  /\ BothOut /\ BothOpenCond /\ BothCloseCond
  /\ sig.ms.MACD_THRESHOLD = -2
  /\ IsNone(sig.inp.pos)
  /\ sig.pos = LongPos(50, 200000)
  /\ Len(sig.trades) = 1

\* C36 witness of the other half: both conditions hold and the LONG key is
\* closed with one SELL
C36_WitnessLong ==
  /\ BothOut /\ BothOpenCond /\ BothCloseCond
  /\ sig.inp.pos = LongPos(50, 200000)
  /\ IsNone(sig.pos)
  /\ Len(sig.trades) = 1 /\ sig.trades[1].side = "SELL"

\* every SELL of a key's ledger comes right after a BUY of the same quantity
SellsFollowBuys(ks) ==
  \A i \in DOMAIN ks :
    ks[i].side = "SELL" =>
      i > 1 /\ ks[i - 1].side = "BUY" /\ ks[i - 1].qty = ks[i].qty

\* the step appends a BUY to a ledger whose last trade is a BUY
BuyAfterBuy ==
  /\ res.phase = "key"
  /\ Len(ledger') = Len(ledger) + 1
  /\ ledger'[Len(ledger')].side = "BUY"
  /\ Len(ledger) > 0 /\ ledger[Len(ledger)].side = "BUY"

\* C37: with the engine as the only writer the ledger of a key is well formed
\* after any sequence of evaluations: every SELL is immediately preceded by a
\* BUY of the same quantity, and a BUY is appended right after a BUY only when
\* a silent clear happened between the two.
C37_KeyLedgerWellFormed ==
  /\ [](res.phase = "key" => SellsFollowBuys(KeyLedger(<<1, BTC>>)))
  /\ [][BuyAfterBuy => res.silent]_vars

\* C37 while no read or write of the ledger file has failed
C37_WellFormedWhileFileWorks ==
  /\ []((res.phase = "key" /\ res.io_ok) => SellsFollowBuys(KeyLedger(<<1, BTC>>)))
  /\ [][(BuyAfterBuy /\ res.io_ok) => res.silent]_vars

\* a BUY, a silent clear at a low price, a BUY again and its SELL
C37_Witness ==
  /\ res.phase = "key" /\ res.io_ok
  /\ Len(ledger) = 3
  /\ ledger[1].side = "BUY" /\ ledger[2].side = "BUY" /\ ledger[3].side = "SELL"

CredSeen == sig.phase = "cred_seen"

\* C38: a key and a secret stored by the front end with encrypt(), with
\* Fernet as with base64, are decoded by the engine to the plaintext that was
\* typed, and a user with saved keys and an active subscription is eligible
\* in both storage modes.
C38_CredentialRoundTrip ==
  CredSeen =>
    /\ sig.dec_key = sig.key /\ sig.dec_secret = sig.secret
    /\ sig.sub_until = "future" => sig.eligible

\* the records handled that were appended after the worker started
HandledNew == SelectSeq(res.handled, LAMBDA t : t.id > 0)
FileNew == SelectSeq(res.file, LAMBDA t : t.id > 0)
\* no record twice, and in the order of the appends
OnceInOrder(seq) == \A i, j \in DOMAIN seq : i < j => seq[i].id < seq[j].id

\* C39: trades_worker handles every trade appended to the ledger after it
\* started exactly once and in ledger order: none is handled twice, and after
\* a poll that read the file none of the ledger's new records is skipped.
C39_EveryTradeHandledOnce ==
  res.phase = "tw" =>
    /\ OnceInOrder(HandledNew)
    /\ res.op = "poll" => Range(FileNew) \subseteq Range(HandledNew)

\* C39 while no read or write inside append_trade has failed
C39_HandledOnceWhileFileWorks ==
  (res.phase = "tw" /\ res.io_ok) =>
    /\ OnceInOrder(HandledNew)
    /\ res.op = "poll" => HandledNew = FileNew

\* two polls, each finding new records: all three handled, in order
C39_Witness ==
  /\ res.phase = "tw" /\ res.io_ok /\ res.op = "poll"
  /\ HandledNew = << TradeRec(1), TradeRec(2), TradeRec(3) >>
  /\ res.polls = 2 /\ res.last_index = Len(res.file)

=============================================================================
